---- MODULE Spec2Model ----
(***************************************************************************)
(* Minesweeper solver, src/minesweeper/v4.py (solve_mine and its four      *)
(* heuristics) together with the oracle of src/minesweeper/__init__.py.    *)
(*                                                                         *)
(* A cell token is a one-character string: "?" (hidden), "x" (mine / flag) *)
(* or a digit "0".."8".  board and key are functions from positions        *)
(* <<row, column>> (0-based, as in the source) to tokens.                  *)
(*                                                                         *)
(* The inputs are the pairs produced the way gen_board produces them: a    *)
(* key for a mine placement, the board that shows the key's zeros and      *)
(* hides every other cell, and n the number of mines of the key.  Every    *)
(* placement within the bounds is an input, and so are a few larger boards *)
(* (LargerBoards) on which the overlap rule and the mine count decide, and *)
(* a map that shows more than the key's zeros (PartialBoards).             *)
(*                                                                         *)
(* Python does not fix the iteration order of a set or of a dict keyed by  *)
(* frozensets, so every "for x in <set>" of the source is modelled as a    *)
(* visit of the elements in an arbitrary order.  A failing assertion of    *)
(* the oracle ends the run (pc = "crashed").                               *)
(***************************************************************************)
EXTENDS Integers, Sequences, FiniteSets, TLC

\* ---------------------------------------------------------------- bounds
MaxRows == 3
MaxCols == 3
MaxMines == 3

VARIABLES
    key,               \* minesweeper.key, as the parsed grid _key
    n,                 \* argument n of solve_mine
    nrows, ncols,      \* dimensions of board
    board0,            \* the input board (argument map, parsed)
    board,             \* the working board
    unknowns,          \* set of positions still believed hidden
    frontier,          \* set of hint positions ({} stands for the initial None)
    result,            \* text, a sequence of characters
    nmines_remaining,
    num_unknown,
    idx,               \* index into heuristics
    pc,                \* "loop", "basic", "apply", "done", "crashed"
    todo,              \* frontier cells basic_analysis has not visited yet
    groups,            \* the dict last returned by get_groups
    new_groups,        \* the dict new_groups of inclusive_deduction
    pending,           \* keys of new_groups the update loop has not visited
    opened,            \* history: number of oracle calls per position
    written,           \* history: number of assignments to board[pos]
    opened_after_flag, \* history: positions opened while a flag was on the board
    calls,             \* history: number of invocations per heuristic index
    last_called,       \* history: index of the heuristic invoked last, or -1
    lookup,            \* src/v2.py: the hint of every Gridspace of lookup
    nfound,            \* src/v2.py: mines marked so far
    updated,           \* src/v2.py: the flag updated of the current iteration
    v2pc,              \* src/v2.py: "open_zeros", "mark", "open_safe", "find",
                       \*            "finish", "done", "crashed"
    res,               \* src/v2.py: the value solve_mine returned, as text
    used_find,         \* history: find_safe_spaces has opened a cell
    gen_module,        \* gen_board: "gamebuilder" or "minesweeper"
    rows, columns,     \* gen_board: arguments rows and columns
    gen_nmines,        \* gen_board: argument nmines
    gen_board,         \* gen_board: the list board, in 2 dimensions
    mine_spots,        \* gen_board: the list mine_spots
    gen_pc,            \* gen_board: "shuffle", "mines", "done", "crashed"
    gen_out,           \* gen_board: the pair returned, <<board, key>> as text
    gs_hint,           \* v3 GameState: the hint of every Gridspace of _lookup
    gs_num_undiscovered, \* v3: Gridspace.num_undiscovered per position
    gs_zones,          \* v3: Gridspace.zones per position, a dict as a
                       \*     sequence of <<zone, count>> in insertion order
    gs_ties,           \* v3: Gridspace.ties per position
    gs_unknowns,       \* v3: the keys of _unknowns
    gs_nfound,         \* v3: _nfound
    gs_pc,             \* v3: position in get_solution: "open_zeros", "while",
                       \*     "mark", "open_safe", "ties", "safe", "mines",
                       \*     "finish", "done", "crashed"
    gs_cursor,         \* v3: <<i, j>>, the space and the neighbour the
                       \*     running loop over _lookup is at
    gs_queue,          \* v3: the keys a loop of get_solution has still to visit
    gs_stack,          \* v3: the calls of _open in progress, outermost first
    gs_altered,        \* v3: space_unpacked of _open_safe_spaces
    gs_found,          \* v3: safe_spaces or mines was not empty
    gs_result,         \* v3: the value get_solution returned, as text
    gs_opened,         \* history: number of oracle calls per position
    gs_call,           \* history: the last call of _open or _mark made by a
                       \*          loop, with zones and hints as they were
    mz_lookup,         \* minesweeper/v2.py: the hint of every Gridspace of lookup
    mz_nfound,         \* minesweeper/v2.py: nfound
    mz_updated,        \* minesweeper/v2.py: updated of solve_mine
    mz_pc,             \* minesweeper/v2.py: "open_zeros", "mark", "open_safe",
                       \*     "find", "by_zone", "update", "finish", "done", "crashed"
    mz_zones,          \* minesweeper/v2.py: the dict exclusion_zones, a sequence
                       \*     of <<zone, count>> in insertion order
    mz_space_updated,  \* minesweeper/v2.py: updated of find_safe_spaces
    mz_pairs,          \* minesweeper/v2.py: the visits update_zones has still to make
    mz_zone_added,     \* minesweeper/v2.py: zone_added of update_zones
    mz_res,            \* minesweeper/v2.py: the value solve_mine returned, as text
    mz_added,          \* history: the entries the running call of update_zones wrote
    mz_marked          \* history: the cells the running call of update_zones marked

\* the state of solve_mine of src/v2.py
v2vars == <<lookup, nfound, updated, v2pc, res, used_find>>

\* the state of gen_board of src/gamebuilder.py and src/minesweeper/__init__.py
genvars == <<gen_module, rows, columns, gen_nmines, gen_board, mine_spots,
             gen_pc, gen_out>>

\* the state of GameState.get_solution of src/minesweeper/v3.py
gsvars == <<gs_hint, gs_num_undiscovered, gs_zones, gs_ties, gs_unknowns, gs_nfound,
            gs_pc, gs_cursor, gs_queue, gs_stack, gs_altered, gs_found, gs_result,
            gs_opened, gs_call>>

\* the state of solve_mine of src/minesweeper/v2.py
mzvars == <<mz_lookup, mz_nfound, mz_updated, mz_pc, mz_zones, mz_space_updated,
            mz_pairs, mz_zone_added, mz_res, mz_added, mz_marked>>

vars == <<key, n, nrows, ncols, board0, board, unknowns, frontier, result,
          nmines_remaining, num_unknown, idx, pc, todo, groups, new_groups,
          pending, opened, written, opened_after_flag, calls, last_called, v2vars, genvars, gsvars, mzvars>>

\* ------------------------------------------------------------ conversions
Digits == <<"0", "1", "2", "3", "4", "5", "6", "7", "8">>

\* str(k) for a hint k
str(k) == Digits[k + 1]

\* int(s) for a numeric token s
int(s) == CHOOSE k \in 0..8 : Digits[k + 1] = s

\* s.isnumeric() for a token s
isnumeric(s) == \E k \in 0..8 : Digits[k + 1] = s

\* the heuristics list, by index
heuristics == <<"basic_analysis", "inclusive_deduction", "exclusive_deduction",
                "numerical_deduction">>

\* ------------------------------------------------------------------ grid
Pos(nr, nc) == (0..(nr - 1)) \X (0..(nc - 1))

Neighbors(rnum, cnum, nr, nc) ==
    {<<rnum + roffset, cnum + coffset>> : roffset \in -1..1, coffset \in -1..1}
        \cap {q \in Pos(nr, nc) : q # <<rnum, cnum>>}

get_neighbors(rnum, cnum) == Neighbors(rnum, cnum, nrows, ncols)

\* the key for a mine placement: "x" on a mine, otherwise the number of
\* neighbouring mines
KeyOf(mines, nr, nc) ==
    [p \in Pos(nr, nc) |->
        IF p \in mines THEN "x"
        ELSE str(Cardinality(Neighbors(p[1], p[2], nr, nc) \cap mines))]

\* make_string(hidden=True): every cell other than a 0 is shown as "?"
HiddenBoard(k) == [p \in DOMAIN k |-> IF k[p] # "0" THEN "?" ELSE k[p]]

\* the oracle: the token of the key at (row, column); the assertion fails
\* on a mine
open_fails(row, column) == key[<<row, column>>] = "x"
open(row, column) == int(key[<<row, column>>])

flag(row, column) == "x"

count_remaining_mines(pos, b) ==
    int(b[pos]) - Cardinality({npos \in get_neighbors(pos[1], pos[2]) : b[npos] = "x"})

\* --------------------------------------------------------- text of a grid
RECURSIVE JoinTokens(_, _, _)
\* " ".join(row) for row r of b, columns c..ncols-1
JoinTokens(b, r, c) ==
    IF c >= ncols THEN <<>>
    ELSE IF c = ncols - 1 THEN <<b[<<r, c>>]>>
    ELSE <<b[<<r, c>>], " ">> \o JoinTokens(b, r, c + 1)

RECURSIVE JoinRows(_, _)
\* "\n".join(...) for rows r..nrows-1
JoinRows(b, r) ==
    IF r >= nrows THEN <<>>
    ELSE IF r = nrows - 1 THEN JoinTokens(b, r, 0)
    ELSE JoinTokens(b, r, 0) \o <<"\n">> \o JoinRows(b, r + 1)

get_board_str(b) == JoinRows(b, 0)

\* ------------------------------------------------------------------ Init
\* inputs beyond the bounds, as <<rows, columns, mines>>:
\*   x 2 1      x 2 x 1      0      x x 1 0      x 2 x 1
\*   3 x 1      2 3 2 1      1      x 3 1 0      1 2 1 1
\*   x 2 1      1 x 1 0      x      2 2 1 0      0 1 1 1
\*   1 1 0      1 1 1 0      1      1 x 1 0      0 1 x 1
LargerBoards ==
    {<<4, 3, {<<0, 0>>, <<1, 1>>, <<2, 0>>}>>,
     <<4, 4, {<<0, 0>>, <<0, 2>>, <<2, 1>>}>>,
     <<4, 1, {<<2, 0>>}>>,
     <<4, 4, {<<0, 0>>, <<0, 1>>, <<1, 0>>, <<3, 1>>}>>,
     <<4, 4, {<<0, 0>>, <<0, 2>>, <<3, 2>>}>>}

\* the inputs, as <<rows, columns, mines>>
Inputs ==
    UNION {{<<nr, nc, mines>> : mines \in {m \in SUBSET Pos(nr, nc) : Cardinality(m) <= MaxMines}}
              : nr \in 1..MaxRows, nc \in 1..MaxCols}
        \cup LargerBoards

\* partially revealed inputs, as <<rows, columns, mines, hidden cells>>:
\*   key 1 x 1 0     map 1 ? 1 ?
\*       1 2 2 1         ? 2 2 1
\*       2 3 x 1         2 ? ? 1
\*       x x 2 1         ? ? ? 1
PartialBoards ==
    {<<4, 4, {<<0, 1>>, <<2, 2>>, <<3, 0>>, <<3, 1>>},
       {<<0, 1>>, <<0, 3>>, <<1, 0>>, <<2, 1>>, <<2, 2>>, <<3, 0>>, <<3, 1>>, <<3, 2>>}>>}

\* the map that hides the cells of hidden and shows the key elsewhere
PartialBoard(k, hidden) == [p \in DOMAIN k |-> IF p \in hidden THEN "?" ELSE k[p]]

\* the mine marker 'x' in the list of ints that gen_board fills
x_mark == -1

\* gen_board(nr, nc, nm) of module m on entry
GenCall(nr, nc, nm, m) ==
    /\ gen_module = m
    /\ rows = nr
    /\ columns = nc
    /\ gen_nmines = nm
    /\ gen_board = [p \in Pos(nr, nc) |-> 0]
    /\ mine_spots = <<>>
    /\ gen_pc = "shuffle"
    /\ gen_out = <<>>

\* the state of solve_mine(map, n) before the analysis loop, for the parsed
\* map b0 and minesweeper.key the key of mines
Start(nr, nc, mines, b0) ==
    /\ nrows = nr
    /\ ncols = nc
    /\ key = KeyOf(mines, nr, nc)
    /\ n = Cardinality(mines)
    /\ board0 = b0
    /\ board = b0
    /\ unknowns = {p \in Pos(nr, nc) : b0[p] = "?"}
    /\ frontier = {}
    /\ result = <<"?">>
    /\ nmines_remaining = Cardinality(mines)
    /\ num_unknown = -1
    /\ idx = 0
    /\ pc = "loop"
    /\ todo = {}
    /\ groups = <<>>
    /\ new_groups = <<>>
    /\ pending = {}
    /\ opened = [p \in Pos(nr, nc) |-> 0]
    /\ written = [p \in Pos(nr, nc) |-> 0]
    /\ opened_after_flag = {}
    /\ calls = [i \in 0..3 |-> 0]
    /\ last_called = -1
    /\ lookup = b0
    /\ nfound = 0
    /\ updated = FALSE
    /\ v2pc = "open_zeros"
    /\ res = <<>>
    /\ used_find = FALSE
    /\ gs_hint = b0
    /\ gs_num_undiscovered = [p \in Pos(nr, nc) |-> -1]
    /\ gs_zones = [p \in Pos(nr, nc) |-> <<>>]
    /\ gs_ties = [p \in Pos(nr, nc) |-> {}]
    /\ gs_unknowns = {p \in Pos(nr, nc) : b0[p] = "?"}
    /\ gs_nfound = 0
    /\ gs_pc = "open_zeros"
    /\ gs_cursor = <<1, 1>>
    /\ gs_queue = <<>>
    /\ gs_stack = <<>>
    /\ gs_altered = FALSE
    /\ gs_found = FALSE
    /\ gs_result = <<>>
    /\ gs_opened = [p \in Pos(nr, nc) |-> 0]
    /\ gs_call = [kind |-> "none", pos |-> <<0, 0>>, returned |-> FALSE,
                  zones |-> [p \in Pos(nr, nc) |-> <<>>], hint |-> b0]
    /\ mz_lookup = b0
    /\ mz_nfound = 0
    /\ mz_updated = FALSE
    /\ mz_pc = "open_zeros"
    /\ mz_zones = <<>>
    /\ mz_space_updated = FALSE
    /\ mz_pairs = {}
    /\ mz_zone_added = FALSE
    /\ mz_res = <<>>
    /\ mz_added = {}
    /\ mz_marked = {}

Init ==
    /\ GenCall(1, 1, 0, "gamebuilder")
    /\ \/ \E in \in Inputs :
             Start(in[1], in[2], in[3], HiddenBoard(KeyOf(in[3], in[1], in[2])))
       \/ \E in \in PartialBoards :
             Start(in[1], in[2], in[3], PartialBoard(KeyOf(in[3], in[1], in[2]), in[4]))

\* maps that are not a view of the key, as <<rows, columns, mines, map>>:
\* one with a token that is none of 0-8, ? and x, and one whose hints
\* disagree with one another
\*   key 0 0 0     map ? 0 a          key 1 1     map 1 3
\*                                        x 1         ? ?
IrregularBoards ==
    {<<1, 3, {}, <<<<"?", "0", "a">>>>>>,
     <<2, 2, {<<1, 0>>}, <<<<"1", "3">>, <<"?", "?">>>>>>}

\* [line.split(' ') for line in map.splitlines()] keeps every token as it is
ParsedBoard(nr, nc, lines) == [p \in Pos(nr, nc) |-> lines[p[1] + 1][p[2] + 1]]

\* the inputs of Init and the irregular ones
InitAny ==
    \/ Init
    \/ /\ GenCall(1, 1, 0, "gamebuilder")
       /\ \E in \in IrregularBoards :
             Start(in[1], in[2], in[3], ParsedBoard(in[1], in[2], in[4]))

\* ------------------------------------------------- applying a deduction
\* "if pos in unknowns" of the update loops
in_unknowns(pos, unk) == pos \in unk

\* variant: a flagged position is not removed from unknowns
FlagAll_keep(target, b, unk, nm) ==
    LET hit == {pos \in target : in_unknowns(pos, unk)} IN
    [board |-> [p \in DOMAIN b |-> IF p \in hit THEN flag(p[1], p[2]) ELSE b[p]],
     unknowns |-> unk,
     nmines_remaining |-> nm - Cardinality(hit),
     opened |-> opened,
     written |-> [p \in DOMAIN written |-> IF p \in hit THEN written[p] + 1 ELSE written[p]],
     opened_after_flag |-> opened_after_flag,
     crashed |-> FALSE]

\* variant: nmines_remaining is decremented once per target
FlagAll_count_once(target, b, unk, nm) ==
    LET hit == {pos \in target : in_unknowns(pos, unk)} IN
    [board |-> [p \in DOMAIN b |-> IF p \in hit THEN flag(p[1], p[2]) ELSE b[p]],
     unknowns |-> unk \ hit,
     nmines_remaining |-> IF hit = {} THEN nm ELSE nm - 1,
     opened |-> opened,
     written |-> [p \in DOMAIN written |-> IF p \in hit THEN written[p] + 1 ELSE written[p]],
     opened_after_flag |-> opened_after_flag,
     crashed |-> FALSE]

\* for pos in target: if pos in unknowns: unknowns.remove(pos);
\*     board[pos] = str(flag(*pos)); nmines_remaining -= 1
FlagAll(target, b, unk, nm) ==
    LET hit == {pos \in target : in_unknowns(pos, unk)} IN
    [board |-> [p \in DOMAIN b |-> IF p \in hit THEN flag(p[1], p[2]) ELSE b[p]],
     unknowns |-> unk \ hit,
     nmines_remaining |-> nm - Cardinality(hit),
     opened |-> opened,
     written |-> [p \in DOMAIN written |-> IF p \in hit THEN written[p] + 1 ELSE written[p]],
     opened_after_flag |-> opened_after_flag,
     crashed |-> FALSE]

\* variant: an opened position is not removed from unknowns
OpenAll_keep(target, b, unk, nm) ==
    LET hit == {pos \in target : in_unknowns(pos, unk)}
        bad == {pos \in hit : open_fails(pos[1], pos[2])}
        Opened(S) == [p \in DOMAIN b |->
                        IF p \in S THEN str(open(p[1], p[2])) ELSE b[p]]
        Count(f, S) == [p \in DOMAIN f |-> IF p \in S THEN f[p] + 1 ELSE f[p]]
        After(S) == IF \E p \in DOMAIN b : b[p] = "x" /\ board0[p] # "x"
                    THEN opened_after_flag \cup S ELSE opened_after_flag
    IN  IF bad = {}
        THEN {[board |-> Opened(hit), unknowns |-> unk,
               nmines_remaining |-> nm, opened |-> Count(opened, hit),
               written |-> Count(written, hit),
               opened_after_flag |-> After(hit), crashed |-> FALSE]}
        ELSE {[board |-> Opened(S), unknowns |-> unk,
               nmines_remaining |-> nm, opened |-> Count(opened, S \cup {m}),
               written |-> Count(written, S),
               opened_after_flag |-> After(S \cup {m}), crashed |-> TRUE]
                 : m \in bad, S \in SUBSET (hit \ bad)}

\* for pos in target: if pos in unknowns: unknowns.remove(pos);
\*     board[pos] = str(open(*pos))
\* The set of outcomes over the orders in which target can be visited: when
\* the oracle's assertion fails on m, the positions visited before m have
\* been opened, m has left unknowns and its token has not been written.
OpenAll(target, b, unk, nm) ==
    LET hit == {pos \in target : in_unknowns(pos, unk)}
        bad == {pos \in hit : open_fails(pos[1], pos[2])}
        Opened(S) == [p \in DOMAIN b |->
                        IF p \in S THEN str(open(p[1], p[2])) ELSE b[p]]
        Count(f, S) == [p \in DOMAIN f |-> IF p \in S THEN f[p] + 1 ELSE f[p]]
        After(S) == IF \E p \in DOMAIN b : b[p] = "x" /\ board0[p] # "x"
                    THEN opened_after_flag \cup S ELSE opened_after_flag
    IN  IF bad = {}
        THEN {[board |-> Opened(hit), unknowns |-> unk \ hit,
               nmines_remaining |-> nm, opened |-> Count(opened, hit),
               written |-> Count(written, hit),
               opened_after_flag |-> After(hit), crashed |-> FALSE]}
        ELSE {[board |-> Opened(S), unknowns |-> unk \ (S \cup {m}),
               nmines_remaining |-> nm, opened |-> Count(opened, S \cup {m}),
               written |-> Count(written, S),
               opened_after_flag |-> After(S \cup {m}), crashed |-> TRUE]
                 : m \in bad, S \in SUBSET (hit \ bad)}

Unchanged(b, unk, nm) ==
    [board |-> b, unknowns |-> unk, nmines_remaining |-> nm,
     opened |-> opened, written |-> written,
     opened_after_flag |-> opened_after_flag, crashed |-> FALSE]

\* ------------------------------------------------------------ solver loop
\* variant: a solution is reported as soon as the board was altered
next_idx_break(unk, numunk, i) ==
    IF Cardinality(unk) < numunk THEN -1 ELSE i + 1

\* variant: after a change the same heuristic is tried again
next_idx_stay(unk, numunk, i) ==
    IF Cardinality(unk) < numunk
    THEN IF unk = {} THEN -1 ELSE i
    ELSE i + 1

\* "Check if board was altered": the index of the next heuristic, or -1
\* for the break of a found solution
next_idx(unk, numunk, i) ==
    IF Cardinality(unk) < numunk
    THEN IF unk = {} THEN -1 ELSE 0
    ELSE i + 1

\* the tail of one loop iteration, after heuristics[idx] returned
AfterHeuristic(b, unk) ==
    LET ni == next_idx(unk, num_unknown, idx) IN
    IF ni = -1
    THEN /\ result' = get_board_str(b)
         /\ pc' = "done"
         /\ idx' = idx
    ELSE /\ result' = result
         /\ pc' = "loop"
         /\ idx' = ni

Called(i) ==
    /\ calls' = [calls EXCEPT ![i] = @ + 1]
    /\ last_called' = i

\* variant: every hint of the board is in the frontier
Frontier_all_hints(b, unk) == {q \in DOMAIN b : isnumeric(b[q])}

\* the frontier computed when idx == 0
Frontier(b, unk) ==
    {q \in DOMAIN b : isnumeric(b[q]) /\ \E pos \in unk : q \in get_neighbors(pos[1], pos[2])}

\* -------------------------------------------------------- basic_analysis
local_mines(rnum, cnum, b) == {pos \in get_neighbors(rnum, cnum) : b[pos] = "x"}

local_unknowns(rnum, cnum, b) == {pos \in get_neighbors(rnum, cnum) : b[pos] = "?"}

\* variant: only the opening branch, no cell is ever flagged
BasicCell_open_only(rnum, cnum, b, unk, nm) ==
    IF int(b[<<rnum, cnum>>]) <= Cardinality({pos \in get_neighbors(rnum, cnum) : b[pos] = "x"})
    THEN OpenAll({pos \in get_neighbors(rnum, cnum) : b[pos] = "?"}, b, unk, nm)
    ELSE {Unchanged(b, unk, nm)}

\* the body of "for rnum, cnum in frontier"
BasicCell(rnum, cnum, b, unk, nm) ==
    LET hint == int(b[<<rnum, cnum>>])
        lm == local_mines(rnum, cnum, b)
        lu == local_unknowns(rnum, cnum, b)
    IN  IF hint <= Cardinality(lm)
        THEN OpenAll(lu, b, unk, nm)
        ELSE IF hint = Cardinality(lm) + Cardinality(lu)
        THEN {FlagAll(lu, b, unk, nm)}
        ELSE {Unchanged(b, unk, nm)}

\* loop head with idx == 0: the frontier is recomputed and basic_analysis
\* is entered
BeginBasic ==
    /\ pc = "loop"
    /\ idx = 0
    /\ frontier' = Frontier(board, unknowns)
    /\ num_unknown' = Cardinality(unknowns)
    /\ todo' = Frontier(board, unknowns)
    /\ pc' = "basic"
    /\ Called(0)
    /\ UNCHANGED <<key, n, nrows, ncols, board0, board, unknowns, result,
                   nmines_remaining, idx, groups, new_groups, pending, opened, written, opened_after_flag, v2vars, genvars, gsvars, mzvars>>

\* one iteration of the loop over the frontier
BasicStep ==
    /\ pc = "basic"
    /\ \E cell \in todo :
         \E o \in BasicCell(cell[1], cell[2], board, unknowns, nmines_remaining) :
            /\ board' = o.board
            /\ unknowns' = o.unknowns
            /\ nmines_remaining' = o.nmines_remaining
            /\ opened' = o.opened
            /\ written' = o.written
            /\ opened_after_flag' = o.opened_after_flag
            /\ pc' = IF o.crashed THEN "crashed" ELSE "basic"
            /\ todo' = todo \ {cell}
    /\ UNCHANGED <<key, n, nrows, ncols, board0, frontier, result, num_unknown,
                   idx, groups, new_groups, pending, calls, last_called, v2vars, genvars, gsvars, mzvars>>

\* basic_analysis returns
BasicReturn ==
    /\ pc = "basic"
    /\ todo = {}
    /\ AfterHeuristic(board, unknowns)
    /\ UNCHANGED <<key, n, nrows, ncols, board0, board, unknowns, frontier,
                   nmines_remaining, num_unknown, todo, groups, new_groups, pending,
                   opened, written, opened_after_flag, calls, last_called, v2vars, genvars, gsvars, mzvars>>

\* ------------------------------------------------------------ get_groups
\* the key of the dict entry made for pos: the ?s surrounding pos
Zone(pos, unk) == {neighbor \in get_neighbors(pos[1], pos[2]) : neighbor \in unk}

\* The dicts get_groups can return.  Two frontier cells with the same zone
\* write the same key and the later write stays, so the entry of a zone
\* holds the count of any one of the cells that produce it.
get_groups(b, fr, unk) ==
    LET zones == {Zone(pos, unk) : pos \in fr}
        Counts(z) == {count_remaining_mines(pos, b) : pos \in {q \in fr : Zone(q, unk) = z}}
    IN  {g \in [zones -> UNION {Counts(z) : z \in zones}] :
            \A z \in zones : g[z] \in Counts(z)}

\* --------------------------------------------------- inclusive_deduction
\* the pairs <<group, other>> with group < other
SubsetPairs(g) ==
    {p \in (DOMAIN g) \X (DOMAIN g) : p[1] \subseteq p[2] /\ p[1] # p[2]}

\* variant: the remainder keeps the count of the larger group
SplitWrites_nosub(g) ==
    {<<p[1] \cap p[2], g[p[1]]>> : p \in SubsetPairs(g)}
        \cup {<<p[2] \ p[1], g[p[2]]>> : p \in SubsetPairs(g)}

\* the writes of the first loop, as <<key, value>> pairs:
\* new_groups[same] = nmines and new_groups[other_remaining] = other_nmines - nmines
SplitWrites(g) ==
    {<<p[1] \cap p[2], g[p[1]]>> : p \in SubsetPairs(g)}
        \cup {<<p[2] \ p[1], g[p[2]] - g[p[1]]>> : p \in SubsetPairs(g)}

\* the dict parents after the first loop
parents(g) ==
    [other \in {p[2] : p \in SubsetPairs(g)} |->
        {p[1] \cap p[2] : p \in {q \in SubsetPairs(g) : q[2] = other}}
            \cup {p[2] \ p[1] : p \in {q \in SubsetPairs(g) : q[2] = other}}]

\* the <<parent, child, other_child>> of the second loop that write an entry
ChildTriples(g) ==
    LET par == parents(g) IN
    UNION {{<<parent, child, other_child>> : child \in par[parent], other_child \in par[parent]}
              : parent \in DOMAIN par}

WritingTriples(g) ==
    {t \in ChildTriples(g) : t[2] \cap t[3] = {} /\ (t[1] \ t[2]) \ t[3] # {}}

\* One pass of the second loop over the writes W seen so far:
\* new_groups[new_child] = groups[parent] - new_groups[child] - new_groups[other_child]
ChildWrites(g, W) ==
    UNION {{<<(t[1] \ t[2]) \ t[3], g[t[1]] - w1[2] - w2[2]>> :
                w1 \in {w \in W : w[1] = t[2]}, w2 \in {w \in W : w[1] = t[3]}}
              : t \in WritingTriples(g)}

RECURSIVE AllWrites(_, _, _)
\* Every <<key, value>> some order of the two loops can write: a write of
\* the second loop reads entries that an earlier iteration of it may have
\* replaced, so the passes are repeated, at most once per writing triple.
AllWrites(g, W, k) ==
    LET W2 == W \cup ChildWrites(g, W) IN
    IF k = 0 \/ W2 = W THEN W ELSE AllWrites(g, W2, k - 1)

\* The dicts new_groups can be when the update loop starts: each key holds
\* one of the values written to it.
NewGroups(g) ==
    LET W == AllWrites(g, SplitWrites(g), Cardinality(WritingTriples(g)))
        keys == {w[1] : w \in W}
    IN  {ng \in [keys -> {w[2] : w \in W}] : \A z \in keys : <<z, ng[z]>> \in W}

\* variant: a group without mines is left alone
UpdateGroup_flag_only(group, nmines, b, unk, nm) ==
    IF Cardinality(group) = nmines
    THEN {FlagAll(group, b, unk, nm)}
    ELSE {Unchanged(b, unk, nm)}

\* the body of "for group, nmines in new_groups.items()"
UpdateGroup(group, nmines, b, unk, nm) ==
    IF Cardinality(group) = nmines
    THEN {FlagAll(group, b, unk, nm)}
    ELSE IF nmines = 0
    THEN OpenAll(group, b, unk, nm)
    ELSE {Unchanged(b, unk, nm)}

\* loop head with idx == 1: inclusive_deduction up to the update loop.
\* Only the entries that take one of the two branches are kept in pending.
InclusiveDeduction ==
    /\ pc = "loop"
    /\ idx = 1
    /\ \E g \in get_groups(board, frontier, unknowns) :
         /\ groups' = g
         /\ \E ng \in NewGroups(g) :
              /\ new_groups' = ng
              /\ pending' = {z \in DOMAIN ng : Cardinality(z) = ng[z] \/ ng[z] = 0}
    /\ pc' = "apply"
    /\ Called(1)
    /\ UNCHANGED <<key, n, nrows, ncols, board0, board, unknowns, frontier,
                   result, nmines_remaining, num_unknown, idx, todo, opened, written, opened_after_flag, v2vars, genvars, gsvars, mzvars>>

\* one iteration of "Update the board with the results of analysis"
InclusiveApply ==
    /\ pc = "apply"
    /\ \E group \in pending :
         \E o \in UpdateGroup(group, new_groups[group], board, unknowns, nmines_remaining) :
            /\ board' = o.board
            /\ unknowns' = o.unknowns
            /\ nmines_remaining' = o.nmines_remaining
            /\ opened' = o.opened
            /\ written' = o.written
            /\ opened_after_flag' = o.opened_after_flag
            /\ pc' = IF o.crashed THEN "crashed" ELSE "apply"
            /\ pending' = pending \ {group}
    /\ UNCHANGED <<key, n, nrows, ncols, board0, frontier, result, num_unknown,
                   idx, todo, groups, new_groups, calls, last_called, v2vars, genvars, gsvars, mzvars>>

\* inclusive_deduction returns
InclusiveReturn ==
    /\ pc = "apply"
    /\ pending = {}
    /\ AfterHeuristic(board, unknowns)
    /\ UNCHANGED <<key, n, nrows, ncols, board0, board, unknowns, frontier,
                   nmines_remaining, num_unknown, todo, groups, new_groups,
                   pending, opened, written, opened_after_flag, calls, last_called, v2vars, genvars, gsvars, mzvars>>

\* --------------------------------------------------- exclusive_deduction
Max(a, b) == IF a >= b THEN a ELSE b

min_allowed_in_same(group, nmines, other, other_nmines) ==
    Max(Max(nmines - Cardinality(group \ (group \cap other)),
            other_nmines - Cardinality(other \ (group \cap other))), 0)

\* variant: the first branch picks the remainder of the other group
target_other(group, nmines, other, other_nmines) ==
    LET same == group \cap other
        group_remaining == group \ same
        other_remaining == other \ same
        m == min_allowed_in_same(group, nmines, other, other_nmines)
    IN  IF same # {} /\ group # other /\ m # 0
        THEN IF nmines - m = Cardinality(group_remaining)
             THEN <<other_remaining>>
             ELSE IF other_nmines - m = Cardinality(other_remaining)
             THEN <<other_remaining>>
             ELSE <<>>
        ELSE <<>>

\* the target chosen for the pair (group, other); <<>> when the pair is
\* skipped or continued
target(group, nmines, other, other_nmines) ==
    LET same == group \cap other
        group_remaining == group \ same
        other_remaining == other \ same
        m == min_allowed_in_same(group, nmines, other, other_nmines)
    IN  IF same # {} /\ group # other /\ m # 0
        THEN IF nmines - m = Cardinality(group_remaining)
             THEN <<group_remaining>>
             ELSE IF other_nmines - m = Cardinality(other_remaining)
             THEN <<other_remaining>>
             ELSE <<>>
        ELSE <<>>

\* variant: the double loop goes on and the targets of all pairs are taken
FirstTargets_all(g) ==
    LET ts == {target(p[1], g[p[1]], p[2], g[p[2]])[1] :
                 p \in {q \in (DOMAIN g) \X (DOMAIN g) : target(q[1], g[q[1]], q[2], g[q[2]]) # <<>>}}
    IN  IF ts = {} THEN {} ELSE {UNION ts}

\* The targets the double loop can reach first: the pair (group, other) is
\* the first one examined when the dict yields group first and other second.
FirstTargets(g) ==
    {target(p[1], g[p[1]], p[2], g[p[2]])[1] :
        p \in {q \in (DOMAIN g) \X (DOMAIN g) : target(q[1], g[q[1]], q[2], g[q[2]]) # <<>>}}

\* loop head with idx == 2: the whole of exclusive_deduction
ExclusiveDeduction ==
    /\ pc = "loop"
    /\ idx = 2
    /\ Called(2)
    /\ \E g \in get_groups(board, frontier, unknowns) :
         /\ groups' = g
         /\ \E o \in IF FirstTargets(g) = {}
                     THEN {Unchanged(board, unknowns, nmines_remaining)}
                     ELSE {FlagAll(t, board, unknowns, nmines_remaining) : t \in FirstTargets(g)} :
              /\ board' = o.board
              /\ unknowns' = o.unknowns
              /\ nmines_remaining' = o.nmines_remaining
              /\ written' = o.written
              /\ AfterHeuristic(o.board, o.unknowns)
    /\ UNCHANGED <<key, n, nrows, ncols, board0, frontier, num_unknown, todo,
                   new_groups, pending, opened, opened_after_flag, v2vars, genvars, gsvars, mzvars>>

\* --------------------------------------------------- numerical_deduction
NumericalDeduction ==
    /\ pc = "loop"
    /\ idx = 3
    /\ Called(3)
    /\ AfterHeuristic(board, unknowns)
    /\ UNCHANGED <<key, n, nrows, ncols, board0, board, unknowns, frontier,
                   nmines_remaining, num_unknown, todo, groups, new_groups, pending,
                   opened, written, opened_after_flag, v2vars, genvars, gsvars, mzvars>>

\* the while condition fails: all heuristics have been tried
GiveUp ==
    /\ pc = "loop"
    /\ idx >= Len(heuristics)
    /\ pc' = "done"
    /\ UNCHANGED <<key, n, nrows, ncols, board0, board, unknowns, frontier,
                   result, nmines_remaining, num_unknown, idx, todo, groups,
                   new_groups, pending, opened, written, opened_after_flag, calls, last_called, v2vars, genvars, gsvars, mzvars>>

Next ==
    \/ BeginBasic
    \/ BasicStep
    \/ BasicReturn
    \/ InclusiveDeduction
    \/ InclusiveApply
    \/ InclusiveReturn
    \/ ExclusiveDeduction
    \/ NumericalDeduction
    \/ GiveUp

Spec == Init /\ [][Next]_vars

\* the solver on every input, irregular ones included
SpecAny == InitAny /\ [][Next]_vars

\* ======================================================================
\* src/v2.py: solve_mine with open_zeros, mark_spaces, open_safe_spaces
\* and find_safe_spaces.  lookup is a dict filled row by row and a dict
\* keeps its insertion order, so every loop of this solver has one order.
\* open of src/v2.py is the oracle above.  An exception leaves solve_mine
\* and its locals with it: in a crashed state lookup keeps the value it had
\* before the failing call.
\* ======================================================================
\* the state of solve_mine of src/minesweeper/v4.py
v4vars == <<board, unknowns, frontier, result, nmines_remaining, num_unknown,
            idx, pc, todo, groups, new_groups, pending, opened, written,
            opened_after_flag, calls, last_called>>

\* the keys of lookup in insertion order
PosSeq == [i \in 1..(nrows * ncols) |-> <<(i - 1) \div ncols, (i - 1) % ncols>>]

\* the values of Gridspace.neighbors that are not None
space_neighbors(pos) == Neighbors(pos[1], pos[2], nrows, ncols)

\* lookup after lookup[pos].hint = f"{open(*pos)}" for every pos of S
OpenHints(lk, S) == [p \in DOMAIN lk |-> IF p \in S THEN str(open(p[1], p[2])) ELSE lk[p]]

\* the assertion of open fails on a position of S
hits_mine(S) == \E p \in S : open_fails(p[1], p[2])

hashmaptostring(hashmap) == JoinRows(hashmap, 0)

RECURSIVE open_zeros_from(_, _)
\* the loop of open_zeros from the i-th item of lookup on
open_zeros_from(lk, i) ==
    IF i > Len(PosSeq) THEN [lookup |-> lk, crashed |-> FALSE]
    ELSE LET space == PosSeq[i]
             hit == IF lk[space] = "0"
                    THEN {neighbor \in space_neighbors(space) : lk[neighbor] = "?"}
                    ELSE {}
         IN  IF hits_mine(hit) THEN [lookup |-> lk, crashed |-> TRUE]
             ELSE open_zeros_from(OpenHints(lk, hit), i + 1)

open_zeros(lk) == open_zeros_from(lk, 1)

\* variant: only the hidden neighbours are counted, the marked ones are not
marks_all_hidden(lk, space) ==
    /\ isnumeric(lk[space])
    /\ int(lk[space]) > 0
    /\ int(lk[space]) = Cardinality({neighbor \in space_neighbors(space) : lk[neighbor] = "?"})

\* the test of mark_spaces: proximity > 0 and proximity equals the number
\* of neighbours whose hint is in 'x?'
marks(lk, space) ==
    /\ isnumeric(lk[space])
    /\ int(lk[space]) > 0
    /\ int(lk[space]) = Cardinality({neighbor \in space_neighbors(space) : lk[neighbor] \in {"x", "?"}})

RECURSIVE mark_spaces_from(_, _, _)
\* the loop of mark_spaces from the i-th item of lookup on
mark_spaces_from(lk, i, nf) ==
    IF i > Len(PosSeq) THEN [lookup |-> lk, nfound |-> nf]
    ELSE LET space == PosSeq[i]
             hit == IF marks(lk, space)
                    THEN {neighbor \in space_neighbors(space) : lk[neighbor] = "?"}
                    ELSE {}
         IN  mark_spaces_from([p \in DOMAIN lk |-> IF p \in hit THEN "x" ELSE lk[p]],
                              i + 1, nf + Cardinality(hit))

mark_spaces(lk) == mark_spaces_from(lk, 1, 0)

RECURSIVE open_safe_spaces_from(_, _, _)
\* the loop of open_safe_spaces from the i-th item of lookup on
open_safe_spaces_from(lk, i, space_unpacked) ==
    IF i > Len(PosSeq)
    THEN [lookup |-> lk, space_unpacked |-> space_unpacked, crashed |-> FALSE]
    ELSE LET space == PosSeq[i]
             safe == /\ isnumeric(lk[space])
                     /\ int(lk[space]) > 0
                     /\ int(lk[space]) =
                          Cardinality({neighbor \in space_neighbors(space) : lk[neighbor] = "x"})
             hit == IF safe
                    THEN {neighbor \in space_neighbors(space) : lk[neighbor] = "?"}
                    ELSE {}
         IN  IF hits_mine(hit)
             THEN [lookup |-> lk, space_unpacked |-> space_unpacked, crashed |-> TRUE]
             ELSE open_safe_spaces_from(OpenHints(lk, hit), i + 1,
                                        space_unpacked \/ hit # {})

open_safe_spaces(lk) == open_safe_spaces_from(lk, 1, FALSE)

\* ---------------------------------------------------- find_safe_spaces
\* the dict exclusion_zones is the sequence of its items <<zone, level>>
HasKey(d, k) == \E j \in 1..Len(d) : d[j][1] = k

\* d[k] = v: a present key keeps its place, a new key goes to the end
DictSet(d, k, v) ==
    IF HasKey(d, k)
    THEN [j \in 1..Len(d) |-> IF d[j][1] = k THEN <<k, v>> ELSE d[j]]
    ELSE Append(d, <<k, v>>)

\* d.pop(k)
DictPop(d, k) == SelectSeq(d, LAMBDA e : e[1] # k)

\* the keys of the dict frontier, in order
find_frontier(lk) ==
    SelectSeq(PosSeq, LAMBDA pos :
        isnumeric(lk[pos]) /\ \E nb \in space_neighbors(pos) : lk[nb] = "?")

RECURSIVE exclusion_zones_from(_, _, _, _)
\* the loop that fills exclusion_zones, from the j-th frontier item on
exclusion_zones_from(lk, fr, j, d) ==
    IF j > Len(fr) THEN d
    ELSE LET space == fr[j]
             nunkown == int(lk[space])
                          - Cardinality({nb \in space_neighbors(space) : lk[nb] = "x"})
             zone == {nb \in space_neighbors(space) : lk[nb] = "?"}
         IN  exclusion_zones_from(lk, fr, j + 1, DictSet(d, zone, nunkown))

RECURSIVE sorted_up(_, _)
\* sorted(items, key=len, reverse=False), from length s on; sorted is stable
sorted_up(d, s) ==
    IF s > 8 THEN <<>>
    ELSE SelectSeq(d, LAMBDA e : Cardinality(e[1]) = s) \o sorted_up(d, s + 1)

RECURSIVE sorted_down(_, _)
\* sorted(items, key=len, reverse=True), from length s down; items of equal
\* length keep their order
sorted_down(d, s) ==
    IF s < 0 THEN <<>>
    ELSE SelectSeq(d, LAMBDA e : Cardinality(e[1]) = s) \o sorted_down(d, s - 1)

RECURSIVE inner_loop(_, _, _, _, _, _, _)
\* "for other, other_level in sorted(...)" from the j-th item of others on
inner_loop(zone, level, others, j, d, lk, upd) ==
    IF j > Len(others)
    THEN [zones |-> d, lookup |-> lk, updated |-> upd, crashed |-> FALSE]
    ELSE LET other == others[j][1]
             other_level == others[j][2]
             new_zone == other \ zone
         IN  IF Cardinality(zone) > Cardinality(other)
             THEN [zones |-> d, lookup |-> lk, updated |-> upd, crashed |-> FALSE]
             ELSE IF zone \subseteq other /\ zone # other
             THEN IF ~HasKey(d, other)
                  THEN [zones |-> d, lookup |-> lk, updated |-> upd, crashed |-> TRUE]
                  ELSE IF other_level - level > 0
                  THEN inner_loop(zone, level, others, j + 1,
                                  DictSet(DictPop(d, other), new_zone, other_level - level),
                                  lk, upd)
                  ELSE IF hits_mine(new_zone)
                  THEN [zones |-> d, lookup |-> lk, updated |-> upd, crashed |-> TRUE]
                  ELSE inner_loop(zone, level, others, j + 1, DictPop(d, other),
                                  OpenHints(lk, new_zone), TRUE)
             ELSE inner_loop(zone, level, others, j + 1, d, lk, upd)

RECURSIVE outer_loop(_, _, _, _, _)
\* "for zone, level in sorted(...)" from the i-th item of zs on
outer_loop(zs, i, d, lk, upd) ==
    IF i > Len(zs) THEN [lookup |-> lk, updated |-> upd, crashed |-> FALSE]
    ELSE LET r == inner_loop(zs[i][1], zs[i][2], sorted_down(d, 8), 1, d, lk, upd)
         IN  IF r.crashed THEN [lookup |-> lk, updated |-> upd, crashed |-> TRUE]
             ELSE outer_loop(zs, i + 1, r.zones, r.lookup, r.updated)

find_safe_spaces(lk) ==
    LET exclusion_zones == exclusion_zones_from(lk, find_frontier(lk), 1, <<>>)
    IN  outer_loop(sorted_up(exclusion_zones, 0), 1, exclusion_zones, lk, FALSE)

\* ------------------------------------------------------------ the loop
\* "while nfound < n": where control goes at the loop head
loop_head(nf) == IF nf < n THEN "mark" ELSE "finish"

V2OpenZeros ==
    /\ v2pc = "open_zeros"
    /\ LET r == open_zeros(lookup) IN
         /\ lookup' = IF r.crashed THEN lookup ELSE r.lookup
         /\ v2pc' = IF r.crashed THEN "crashed" ELSE loop_head(nfound)
    /\ UNCHANGED <<key, n, nrows, ncols, board0, nfound, updated, res, used_find, v4vars, genvars, gsvars, mzvars>>

V2MarkSpaces ==
    /\ v2pc = "mark"
    /\ LET r == mark_spaces(lookup) IN
         /\ lookup' = r.lookup
         /\ nfound' = nfound + r.nfound
         /\ updated' = (r.nfound # 0)
    /\ v2pc' = "open_safe"
    /\ UNCHANGED <<key, n, nrows, ncols, board0, res, used_find, v4vars, genvars, gsvars, mzvars>>

V2OpenSafeSpaces ==
    /\ v2pc = "open_safe"
    /\ LET r == open_safe_spaces(lookup) IN
         /\ lookup' = IF r.crashed THEN lookup ELSE r.lookup
         /\ updated' = (updated \/ r.space_unpacked)
         /\ v2pc' = IF r.crashed THEN "crashed"
                    ELSE IF updated \/ r.space_unpacked THEN loop_head(nfound)
                    ELSE "find"
    /\ UNCHANGED <<key, n, nrows, ncols, board0, nfound, res, used_find, v4vars, genvars, gsvars, mzvars>>

V2FindSafeSpaces ==
    /\ v2pc = "find"
    /\ LET r == find_safe_spaces(lookup) IN
         /\ lookup' = IF r.crashed THEN lookup ELSE r.lookup
         /\ used_find' = (used_find \/ (~r.crashed /\ r.updated))
         /\ v2pc' = IF r.crashed THEN "crashed"
                    ELSE IF r.updated THEN loop_head(nfound)
                    ELSE "done"
         /\ res' = IF ~r.crashed /\ ~r.updated THEN <<"?">> ELSE res
    /\ UNCHANGED <<key, n, nrows, ncols, board0, nfound, updated, v4vars, genvars, gsvars, mzvars>>

\* "All mines found; Open all remaining '?'s" and the return of the grid
V2Finish ==
    /\ v2pc = "finish"
    /\ LET rest == {pos \in DOMAIN lookup : lookup[pos] = "?"} IN
         IF hits_mine(rest)
         THEN /\ v2pc' = "crashed"
              /\ UNCHANGED <<lookup, res>>
         ELSE /\ lookup' = OpenHints(lookup, rest)
              /\ res' = hashmaptostring(OpenHints(lookup, rest))
              /\ v2pc' = "done"
    /\ UNCHANGED <<key, n, nrows, ncols, board0, nfound, updated, used_find, v4vars, genvars, gsvars, mzvars>>

NextV2 ==
    \/ V2OpenZeros
    \/ V2MarkSpaces
    \/ V2OpenSafeSpaces
    \/ V2FindSafeSpaces
    \/ V2Finish

SpecV2 == Init /\ [][NextV2]_vars

\* ======================================================================
\* gen_board of src/gamebuilder.py and of src/minesweeper/__init__.py.
\* board is a list of ints in which a mine is the marker x_mark; the
\* module "minesweeper" repeats the whole construction until the key holds
\* a 0 and ends both returned texts with a newline.
\* ======================================================================
\* the positions of a grid row by row
CellSeq(nr, nc) == [i \in 1..(nr * nc) |-> <<(i - 1) \div nc, (i - 1) % nc>>]

\* board[r][c] += 1
Incr(b, r, c) == [b EXCEPT ![<<r, c>>] = @ + 1]

\* only the left neighbour is updated
update_left_only(b, r, c) ==
    IF c # 0 /\ b[<<r, c - 1>>] # x_mark THEN Incr(b, r, c - 1) ELSE b

update_left_right(b, r, c) ==
    LET left == IF c # 0 /\ b[<<r, c - 1>>] # x_mark THEN Incr(b, r, c - 1) ELSE b
    IN  IF c < columns - 1 /\ left[<<r, c + 1>>] # x_mark
        THEN Incr(left, r, c + 1)
        ELSE left

\* one pass of "for _ in range(len(mine_spots))" for the mine popped
update_around(b, row_num, col_num) ==
    LET same == update_left_right(b, row_num, col_num)
        above == IF row_num # 0
                 THEN update_left_right(
                          IF same[<<row_num - 1, col_num>>] # x_mark
                          THEN Incr(same, row_num - 1, col_num) ELSE same,
                          row_num - 1, col_num)
                 ELSE same
    IN  IF row_num < rows - 1
        THEN update_left_right(
                 IF above[<<row_num + 1, col_num>>] # x_mark
                 THEN Incr(above, row_num + 1, col_num) ELSE above,
                 row_num + 1, col_num)
        ELSE above

\* str(c) of a cell of board
str_cell(c) == IF c = x_mark THEN "x" ELSE str(c)

RECURSIVE make_string_from(_, _, _)
\* the joined text of the cells from the i-th on, row by row
make_string_from(b, hidden, i) ==
    IF i > rows * columns THEN <<>>
    ELSE LET c == b[CellSeq(rows, columns)[i]]
             token == IF hidden /\ c # 0 THEN "?" ELSE str_cell(c)
             sep == IF i = rows * columns THEN <<>>
                    ELSE IF i % columns = 0 THEN <<"\n">>
                    ELSE <<" ">>
         IN  <<token>> \o sep \o make_string_from(b, hidden, i + 1)

make_string(b, hidden) ==
    make_string_from(b, hidden, 1)
        \o (IF gen_module = "minesweeper" THEN <<"\n">> ELSE <<>>)

\* the assertion on nmines, then shuffle(board), the translation into 2
\* dimensions and the list of the mines
GenShuffle ==
    /\ gen_pc = "shuffle"
    /\ IF gen_nmines >= rows * columns
       THEN /\ gen_pc' = "crashed"
            /\ UNCHANGED <<gen_board, mine_spots>>
       ELSE \E mines \in {m \in SUBSET Pos(rows, columns) : Cardinality(m) = gen_nmines} :
               /\ gen_board' = [p \in Pos(rows, columns) |-> IF p \in mines THEN x_mark ELSE 0]
               /\ mine_spots' = SelectSeq(CellSeq(rows, columns), LAMBDA p : p \in mines)
               /\ gen_pc' = "mines"
    /\ UNCHANGED <<gen_module, rows, columns, gen_nmines, gen_out,
                   key, n, nrows, ncols, board0, v4vars, v2vars, gsvars, mzvars>>

\* one pass of the loop over the mines: mine_spots.pop() and the updates
GenMine ==
    /\ gen_pc = "mines"
    /\ mine_spots # <<>>
    /\ LET spot == mine_spots[Len(mine_spots)] IN
         gen_board' = update_around(gen_board, spot[1], spot[2])
    /\ mine_spots' = SubSeq(mine_spots, 1, Len(mine_spots) - 1)
    /\ UNCHANGED <<gen_module, rows, columns, gen_nmines, gen_pc, gen_out,
                   key, n, nrows, ncols, board0, v4vars, v2vars, gsvars, mzvars>>

\* make_string(hidden=True), make_string(); "minesweeper" starts again
\* while the key holds no '0'
GenMakeString ==
    /\ gen_pc = "mines"
    /\ mine_spots = <<>>
    /\ LET out == <<make_string(gen_board, TRUE), make_string(gen_board, FALSE)>> IN
         IF gen_module = "minesweeper" /\ \A k \in 1..Len(out[2]) : out[2][k] # "0"
         THEN /\ gen_pc' = "shuffle"
              /\ UNCHANGED gen_out
         ELSE /\ gen_pc' = "done"
              /\ gen_out' = out
    /\ UNCHANGED <<gen_module, rows, columns, gen_nmines, gen_board, mine_spots,
                   key, n, nrows, ncols, board0, v4vars, v2vars, gsvars, mzvars>>

NextGen ==
    \/ GenShuffle
    \/ GenMine
    \/ GenMakeString

\* the calls gen_board(rows, columns, nmines) of both modules
InitGen ==
    /\ Start(1, 1, {}, HiddenBoard(KeyOf({}, 1, 1)))
    /\ \E nr \in 1..MaxRows, nc \in 1..MaxCols, nm \in 0..MaxMines,
          m \in {"gamebuilder", "minesweeper"} : GenCall(nr, nc, nm, m)

SpecGen == InitGen /\ [][NextGen]_vars

\* ======================================================================
\* src/minesweeper/v3.py: GameState.  _lookup and _unknowns are dicts filled
\* row by row, neighbors is a dict in the order up, left, down, right,
\* top_left, bottom_left, top_right, bottom_right, and zones is a dict per
\* Gridspace: their loops have one order.  safe_by_proxy, and the zones over
\* whose members safe_spaces and mines are filled, are sets: their members
\* are taken in any order.  The recursion of _open is kept as a stack of
\* frames, one step per call and per return.
\* ======================================================================
\* the neighbours of pos that exist, in the order of Gridspace.neighbors
NeighborSeq(pos) ==
    SelectSeq(<<<<pos[1] - 1, pos[2]>>, <<pos[1], pos[2] - 1>>,
                <<pos[1] + 1, pos[2]>>, <<pos[1], pos[2] + 1>>,
                <<pos[1] - 1, pos[2] - 1>>, <<pos[1] + 1, pos[2] - 1>>,
                <<pos[1] - 1, pos[2] + 1>>, <<pos[1] + 1, pos[2] + 1>>>>,
              LAMBDA q : q \in Pos(nrows, ncols))

\* d[k] of a dict kept as a sequence of <<key, value>>
DictGet(d, k) == d[CHOOSE j \in 1..Len(d) : d[j][1] = k][2]

\* the fields of the GameState that _open and _mark change
GameStateNow ==
    [hint |-> gs_hint, num_undiscovered |-> gs_num_undiscovered,
     zones |-> gs_zones, ties |-> gs_ties, unknowns |-> gs_unknowns,
     nfound |-> gs_nfound, opened |-> gs_opened]

SetGameState(st) ==
    /\ gs_hint' = st.hint
    /\ gs_num_undiscovered' = st.num_undiscovered
    /\ gs_zones' = st.zones
    /\ gs_ties' = st.ties
    /\ gs_unknowns' = st.unknowns
    /\ gs_nfound' = st.nfound
    /\ gs_opened' = st.opened

\* "freq - 1 if freq > 0 else freq"
freq_after_mark(freq) == IF freq > 0 THEN freq - 1 ELSE freq

RECURSIVE remove_from_zones(_, _, _, _, _)
\* "for zone in list(self._lookup[tie].zones)" from the k-th zone of the
\* copy snap on, d being the dict of the tie
remove_from_zones(d, snap, k, pos, marked) ==
    IF k > Len(snap) THEN d
    ELSE IF pos \in snap[k][1]
    THEN LET new_zone == snap[k][1] \ {pos}
             freq == DictGet(d, snap[k][1])
             popped == DictPop(d, snap[k][1])
         IN  remove_from_zones(
                 IF new_zone # {}
                 THEN DictSet(popped, new_zone,
                              IF marked THEN freq_after_mark(freq) ELSE freq)
                 ELSE popped,
                 snap, k + 1, pos, marked)
    ELSE remove_from_zones(d, snap, k + 1, pos, marked)

\* "remove this space from any zones it was in"
leave_zones_of_ties(st, pos, marked) ==
    [st EXCEPT !.zones =
        [tie \in DOMAIN st.zones |->
            IF tie \in st.ties[pos]
            THEN remove_from_zones(st.zones[tie], st.zones[tie], 1, pos, marked)
            ELSE st.zones[tie]]]

\* _open up to the cascade: the position leaves _unknowns, the oracle is
\* called, hint and num_undiscovered are set.  fails: the oracle asserts.
open_enter(st, pos) ==
    LET n_hinted == open(pos[1], pos[2])
        n_marked == Cardinality({j \in 1..Len(NeighborSeq(pos)) :
                                    st.hint[NeighborSeq(pos)[j]] = "x"})
        called == [st EXCEPT !.unknowns = @ \ {pos}, !.opened[pos] = @ + 1]
    IN  IF open_fails(pos[1], pos[2])
        THEN [st |-> called, fails |-> TRUE, safe_by_proxy |-> {}]
        ELSE [st |-> [called EXCEPT !.hint[pos] = str(n_hinted),
                                    !.num_undiscovered[pos] = n_hinted - n_marked],
              fails |-> FALSE,
              safe_by_proxy |->
                 IF n_hinted - n_marked = 0
                 THEN {q \in Pos(nrows, ncols) :
                          /\ \E j \in 1..Len(NeighborSeq(pos)) : NeighborSeq(pos)[j] = q
                          /\ st.hint[q] = "?"}
                 ELSE {}]

\* the whole of _mark
mark_call(st, pos) ==
    LET nbrs == {NeighborSeq(pos)[j] : j \in 1..Len(NeighborSeq(pos))}
        marked == [st EXCEPT
                     !.unknowns = @ \ {pos},
                     !.hint[pos] = IF @ = "?" THEN "x" ELSE @,
                     !.nfound = IF st.hint[pos] = "?" THEN @ + 1 ELSE @,
                     !.num_undiscovered =
                        [q \in DOMAIN @ |-> IF q \in nbrs /\ @[q] > 0 THEN @[q] - 1 ELSE @[q]]]
    IN  leave_zones_of_ties(marked, pos, TRUE)

\* the condition under which a loop over _lookup visits the neighbours of
\* space: _open_zeros, _mark_spaces, _open_safe_spaces
visits(loop, space) ==
    LET count(tokens) == Cardinality({j \in 1..Len(NeighborSeq(space)) :
                                         gs_hint[NeighborSeq(space)[j]] \in tokens})
    IN  IF loop = "open_zeros" THEN gs_hint[space] = "0"
        ELSE /\ isnumeric(gs_hint[space])
             /\ int(gs_hint[space]) > 0
             /\ int(gs_hint[space]) = count(IF loop = "mark" THEN {"x", "?"} ELSE {"x"})

RECURSIVE next_call(_, _, _)
\* The next neighbour with a '?' that the loop reaches from the j-th
\* neighbour of the i-th space on, as <<i, j>>, or <<>>.  The condition
\* of a space is not changed by the calls made for its neighbours.
next_call(loop, i, j) ==
    IF i > Len(PosSeq) THEN <<>>
    ELSE IF ~visits(loop, PosSeq[i]) \/ j > Len(NeighborSeq(PosSeq[i]))
    THEN next_call(loop, i + 1, 1)
    ELSE IF gs_hint[NeighborSeq(PosSeq[i])[j]] = "?" THEN <<i, j>>
    ELSE next_call(loop, i, j + 1)

\* no top-level call has just returned
NoCall == [kind |-> "none", pos |-> <<0, 0>>, returned |-> FALSE,
           zones |-> gs_zones, hint |-> gs_hint]

\* a top-level call of _open(pos): the first frame of the stack
TopOpen(pos) ==
    LET e == open_enter(GameStateNow, pos) IN
    /\ SetGameState(e.st)
    /\ gs_stack' = IF e.fails THEN <<>> ELSE <<[pos |-> pos, safe_by_proxy |-> e.safe_by_proxy]>>
    /\ gs_call' = [kind |-> "open", pos |-> pos, returned |-> FALSE,
                   zones |-> gs_zones, hint |-> gs_hint]
    /\ gs_pc' = IF e.fails THEN "crashed" ELSE gs_pc

\* a top-level call of _mark(pos)
TopMark(pos) ==
    /\ SetGameState(mark_call(GameStateNow, pos))
    /\ gs_call' = [kind |-> "mark", pos |-> pos, returned |-> TRUE,
                   zones |-> gs_zones, hint |-> gs_hint]
    /\ UNCHANGED <<gs_stack, gs_pc>>

gs_rest == <<key, n, nrows, ncols, board0, v4vars, v2vars, genvars, mzvars>>

\* "for pos in safe_by_proxy: self._open(*pos)" in the innermost call
V3Cascade ==
    /\ gs_stack # <<>>
    /\ LET top == gs_stack[Len(gs_stack)] IN
       \E pos \in top.safe_by_proxy :
          LET e == open_enter(GameStateNow, pos)
              waiting == [gs_stack EXCEPT ![Len(gs_stack)].safe_by_proxy = @ \ {pos}]
          IN  /\ SetGameState(e.st)
              /\ gs_stack' = IF e.fails THEN <<>>
                             ELSE Append(waiting, [pos |-> pos, safe_by_proxy |-> e.safe_by_proxy])
              /\ gs_pc' = IF e.fails THEN "crashed" ELSE gs_pc
    /\ UNCHANGED <<gs_cursor, gs_queue, gs_altered, gs_found, gs_result, gs_call, gs_rest>>

\* the innermost call of _open leaves the zones of its ties and returns
V3OpenReturn ==
    /\ gs_stack # <<>>
    /\ gs_stack[Len(gs_stack)].safe_by_proxy = {}
    /\ SetGameState(leave_zones_of_ties(GameStateNow, gs_stack[Len(gs_stack)].pos, FALSE))
    /\ gs_stack' = SubSeq(gs_stack, 1, Len(gs_stack) - 1)
    /\ gs_call' = IF Len(gs_stack) = 1 THEN [gs_call EXCEPT !.returned = TRUE] ELSE gs_call
    /\ UNCHANGED <<gs_pc, gs_cursor, gs_queue, gs_altered, gs_found, gs_result, gs_rest>>

\* the target of the call at <<i, j>>
Target(at) == NeighborSeq(PosSeq[at[1]])[at[2]]

\* _open_zeros: the next call of _open, or the end of the loop
V3OpenZeros ==
    /\ gs_pc = "open_zeros"
    /\ gs_stack = <<>>
    /\ LET at == next_call("open_zeros", gs_cursor[1], gs_cursor[2]) IN
       IF at = <<>>
       THEN /\ gs_pc' = "while"
            /\ gs_call' = NoCall
            /\ UNCHANGED <<gs_hint, gs_num_undiscovered, gs_zones, gs_ties, gs_unknowns,
                           gs_nfound, gs_opened, gs_stack, gs_cursor>>
       ELSE /\ TopOpen(Target(at))
            /\ gs_cursor' = <<at[1], at[2] + 1>>
    /\ UNCHANGED <<gs_queue, gs_altered, gs_found, gs_result, gs_rest>>

\* "while self._nfound < self._nmines", and the snapshot list(self._unknowns)
\* of the last loop
V3While ==
    /\ gs_pc = "while"
    /\ gs_pc' = IF gs_nfound < n THEN "mark" ELSE "finish"
    /\ gs_cursor' = <<1, 1>>
    /\ gs_queue' = IF gs_nfound < n THEN <<>>
                    ELSE SelectSeq(PosSeq, LAMBDA q : q \in gs_unknowns)
    /\ gs_call' = NoCall
    /\ UNCHANGED <<gs_hint, gs_num_undiscovered, gs_zones, gs_ties, gs_unknowns,
                   gs_nfound, gs_opened, gs_stack, gs_altered, gs_found, gs_result, gs_rest>>

\* _mark_spaces: the next call of _mark, or the end of the loop
V3MarkSpaces ==
    /\ gs_pc = "mark"
    /\ LET at == next_call("mark", gs_cursor[1], gs_cursor[2]) IN
       IF at = <<>>
       THEN /\ gs_pc' = "open_safe"
            /\ gs_cursor' = <<1, 1>>
            /\ gs_altered' = FALSE
            /\ gs_call' = NoCall
            /\ UNCHANGED <<gs_hint, gs_num_undiscovered, gs_zones, gs_ties, gs_unknowns,
                           gs_nfound, gs_opened, gs_stack>>
       ELSE /\ TopMark(Target(at))
            /\ gs_cursor' = <<at[1], at[2] + 1>>
            /\ UNCHANGED gs_altered
    /\ UNCHANGED <<gs_queue, gs_found, gs_result, gs_rest>>

\* _open_safe_spaces: the next call of _open, or the end of the loop and
\* "if not board_altered and len(self._unknowns)"
V3OpenSafeSpaces ==
    /\ gs_pc = "open_safe"
    /\ gs_stack = <<>>
    /\ LET at == next_call("open_safe", gs_cursor[1], gs_cursor[2]) IN
       IF at = <<>>
       THEN /\ gs_pc' = IF ~gs_altered /\ gs_unknowns # {} THEN "ties" ELSE "while"
            /\ gs_call' = NoCall
            /\ UNCHANGED <<gs_hint, gs_num_undiscovered, gs_zones, gs_ties, gs_unknowns,
                           gs_nfound, gs_opened, gs_stack, gs_cursor, gs_altered>>
       ELSE /\ TopOpen(Target(at))
            /\ gs_cursor' = <<at[1], at[2] + 1>>
            /\ gs_altered' = TRUE
    /\ UNCHANGED <<gs_queue, gs_found, gs_result, gs_rest>>

RECURSIVE frontier_from(_, _, _)
\* the keys of the dict frontier in insertion order: the numeric
\* neighbours of the unknowns from the i-th position on, fr being the
\* keys so far
frontier_from(st, i, fr) ==
    IF i > Len(PosSeq) THEN fr
    ELSE IF PosSeq[i] \notin st.unknowns THEN frontier_from(st, i + 1, fr)
    ELSE LET hints == SelectSeq(NeighborSeq(PosSeq[i]), LAMBDA q : isnumeric(st.hint[q]))
             new == SelectSeq(hints, LAMBDA q : \A k \in 1..Len(fr) : fr[k] # q)
         IN  frontier_from(st, i + 1, fr \o new)

\* the unknowns around the frontier cell pos
gs_local_unknowns(st, pos) ==
    {NeighborSeq(pos)[j] : j \in 1..Len(NeighborSeq(pos))} \cap st.unknowns

\* the count _make_ties takes for the zone of the frontier cell pos
zone_count(st, pos) == st.num_undiscovered[pos]

RECURSIVE create_zones(_, _, _)
\* "for pos, space in frontier.items()" from the k-th cell of fr on: every
\* unknown around the cell gets the zone, with the smaller of the cell's
\* count and the count it already had for it, and its ties
create_zones(st, fr, k) ==
    IF k > Len(fr) THEN st
    ELSE LET local == gs_local_unknowns(st, fr[k])
             count == zone_count(st, fr[k])
             with(d) == IF HasKey(d, local)
                        THEN DictSet(d, local, IF count < DictGet(d, local) THEN count ELSE DictGet(d, local))
                        ELSE DictSet(d, local, count)
         IN  create_zones(
                 [st EXCEPT
                    !.zones = [u \in DOMAIN @ |-> IF u \in local THEN with(@[u]) ELSE @[u]],
                    !.ties = [u \in DOMAIN @ |-> IF u \in local THEN @[u] \cup (local \ {u}) ELSE @[u]]],
                 fr, k + 1)

RECURSIVE split_inner(_, _, _, _, _)
\* "for other_zone, other_num_undiscovered in list(unknown.zones.items())"
split_inner(d, zone, num, others, b) ==
    IF b > Len(others) THEN d
    ELSE LET other_zone == others[b][1]
             shared == zone \cap other_zone
         IN  IF \/ (zone \subseteq other_zone /\ zone # other_zone)
                \/ (shared # {} /\ others[b][2] > num)
             THEN split_inner(DictSet(d, other_zone \ shared, others[b][2] - num),
                              zone, num, others, b + 1)
             ELSE split_inner(d, zone, num, others, b + 1)

RECURSIVE split_outer(_, _, _)
\* "for zone, num_undiscovered in list(unknown.zones.items())"
split_outer(d, snap, a) ==
    IF a > Len(snap) THEN d
    ELSE split_outer(split_inner(d, snap[a][1], snap[a][2], d, 1), snap, a + 1)

\* _make_ties
make_ties(st) ==
    LET made == create_zones(st, frontier_from(st, 1, <<>>), 1) IN
    [made EXCEPT !.zones =
        [u \in DOMAIN @ |-> IF u \in made.unknowns THEN split_outer(@[u], @[u], 1) ELSE @[u]]]

RECURSIVE zone_list(_, _, _)
\* The keys of safe_spaces (level = "safe") or of mines (level = "mines"),
\* from the i-th position on: "for unknown in self._unknowns.values() for
\* zone, num_undiscovered in unknown.zones.items() for pos in zone".  The
\* zones come in one order, the members of a zone in any order, so the
\* keys are kept as the sequence of the zones that have members.
zone_list(st, level, i) ==
    IF i > Len(PosSeq) THEN <<>>
    ELSE LET chosen == SelectSeq(st.zones[PosSeq[i]],
                          LAMBDA e : /\ e[1] # {}
                                     /\ e[2] = IF level = "safe" THEN 0 ELSE Cardinality(e[1]))
         IN  (IF PosSeq[i] \in st.unknowns
              THEN [k \in 1..Len(chosen) |-> chosen[k][1]]
              ELSE <<>>) \o zone_list(st, level, i + 1)

\* the keys still to visit once pos was visited
visited(queue, pos) ==
    SelectSeq([k \in 1..Len(queue) |-> queue[k] \ {pos}], LAMBDA z : z # {})

\* _make_ties and the dict safe_spaces
V3MakeTies ==
    /\ gs_pc = "ties"
    /\ SetGameState(make_ties(GameStateNow))
    /\ gs_queue' = zone_list(make_ties(GameStateNow), "safe", 1)
    /\ gs_found' = (zone_list(make_ties(GameStateNow), "safe", 1) # <<>>)
    /\ gs_pc' = "safe"
    /\ gs_call' = NoCall
    /\ UNCHANGED <<gs_stack, gs_cursor, gs_altered, gs_result, gs_rest>>

\* "for pos, zone in safe_spaces.items(): self._open(*pos)", then the dict
\* mines and the fail state
V3OpenSafe ==
    /\ gs_pc = "safe"
    /\ gs_stack = <<>>
    /\ IF gs_queue # <<>>
       THEN \E pos \in gs_queue[1] :
               /\ TopOpen(pos)
               /\ gs_queue' = visited(gs_queue, pos)
               /\ UNCHANGED <<gs_found, gs_result>>
       ELSE LET mines == zone_list(GameStateNow, "mines", 1) IN
            /\ gs_queue' = mines
            /\ gs_found' = (gs_found \/ mines # <<>>)
            /\ gs_pc' = IF ~gs_found /\ mines = <<>> THEN "done" ELSE "mines"
            /\ gs_result' = IF ~gs_found /\ mines = <<>> THEN <<"?">> ELSE gs_result
            /\ gs_call' = NoCall
            /\ UNCHANGED <<gs_hint, gs_num_undiscovered, gs_zones, gs_ties, gs_unknowns,
                           gs_nfound, gs_opened, gs_stack>>
    /\ UNCHANGED <<gs_cursor, gs_altered, gs_rest>>

\* "for pos, zone in mines.items(): self._mark(*pos)"
V3MarkMines ==
    /\ gs_pc = "mines"
    /\ IF gs_queue # <<>>
       THEN \E pos \in gs_queue[1] :
               /\ TopMark(pos)
               /\ gs_queue' = visited(gs_queue, pos)
       ELSE /\ gs_pc' = "while"
            /\ gs_call' = NoCall
            /\ UNCHANGED <<gs_hint, gs_num_undiscovered, gs_zones, gs_ties, gs_unknowns,
                           gs_nfound, gs_opened, gs_stack, gs_queue>>
    /\ UNCHANGED <<gs_cursor, gs_altered, gs_found, gs_result, gs_rest>>

\* "for pos in list(self._unknowns): self._open(*pos)" and the return of
\* str(self).strip()
V3Finish ==
    /\ gs_pc = "finish"
    /\ gs_stack = <<>>
    /\ IF gs_queue # <<>>
       THEN /\ TopOpen(gs_queue[1])
            /\ gs_queue' = Tail(gs_queue)
            /\ UNCHANGED gs_result
       ELSE /\ gs_pc' = "done"
            /\ gs_result' = hashmaptostring(gs_hint)
            /\ gs_call' = NoCall
            /\ UNCHANGED <<gs_hint, gs_num_undiscovered, gs_zones, gs_ties, gs_unknowns,
                           gs_nfound, gs_opened, gs_stack, gs_queue>>
    /\ UNCHANGED <<gs_cursor, gs_altered, gs_found, gs_rest>>

NextV3 ==
    \/ V3OpenZeros
    \/ V3While
    \/ V3MarkSpaces
    \/ V3OpenSafeSpaces
    \/ V3MakeTies
    \/ V3OpenSafe
    \/ V3MarkMines
    \/ V3Finish
    \/ V3Cascade
    \/ V3OpenReturn

\* inputs of get_solution beyond the bounds, as <<rows, columns, mines>>:
\*   x 2 x 2      1 1 1
\*   1 2 2 x      1 x 1
\*   0 0 2 2      1 1 1
\*   0 0 1 x      0 0 0
V3Boards ==
    {<<4, 4, {<<0, 0>>, <<0, 2>>, <<1, 3>>, <<3, 3>>}>>,
     <<4, 3, {<<1, 1>>}>>}

\* partially revealed inputs of get_solution:
\*   key 1 1     map 1 1
\*       1 x         ? ?
V3PartialBoards ==
    PartialBoards \cup {<<2, 2, {<<1, 1>>}, {<<1, 0>>, <<1, 1>>}>>}

\* GameState.fromboardstr(map, n) for the inputs
InitV3 ==
    /\ GenCall(1, 1, 0, "gamebuilder")
    /\ \/ \E in \in Inputs \cup V3Boards :
             Start(in[1], in[2], in[3], HiddenBoard(KeyOf(in[3], in[1], in[2])))
       \/ \E in \in V3PartialBoards :
             Start(in[1], in[2], in[3], PartialBoard(KeyOf(in[3], in[1], in[2]), in[4]))

SpecV3 == InitV3 /\ [][NextV3]_vars

\* ======================================================================
\* src/minesweeper/v2.py: solve_mine.  open_zeros, mark_spaces,
\* open_safe_spaces and the last loop are those of src/v2.py, word for
\* word; find_safe_spaces alternates find_by_exclusion_zone and
\* update_zones on one dict exclusion_zones.  update_zones visits pairs of
\* zones that share a coordinate through sets of zones and the members of
\* zones: the pairs are taken in any order, one pair a step.
\* ======================================================================
RECURSIVE by_zone_inner(_, _, _, _, _, _, _)
\* "for other, other_level in sorted(...)" of find_by_exclusion_zone from
\* the j-th item of others on; op is the set opened
by_zone_inner(zone, level, others, j, d, lk, op) ==
    IF j > Len(others)
    THEN [zones |-> d, lookup |-> lk, opened |-> op, crashed |-> FALSE]
    ELSE LET other == others[j][1]
             other_level == others[j][2]
             new_zone == other \ zone
             hidden == {pos \in new_zone : lk[pos] = "?"}
         IN  IF Cardinality(zone) > Cardinality(other)
             THEN [zones |-> d, lookup |-> lk, opened |-> op, crashed |-> FALSE]
             ELSE IF zone \subseteq other /\ zone # other
             THEN IF ~HasKey(d, other)
                  THEN [zones |-> d, lookup |-> lk, opened |-> op, crashed |-> TRUE]
                  ELSE IF other_level - level > 0
                  THEN by_zone_inner(zone, level, others, j + 1,
                                     DictSet(DictPop(d, other), new_zone, other_level - level),
                                     lk, op)
                  ELSE IF hits_mine(hidden)
                  THEN [zones |-> d, lookup |-> lk, opened |-> op, crashed |-> TRUE]
                  ELSE by_zone_inner(zone, level, others, j + 1, DictPop(d, other),
                                     OpenHints(lk, hidden), op \cup hidden)
             ELSE by_zone_inner(zone, level, others, j + 1, d, lk, op)

RECURSIVE by_zone_outer(_, _, _, _, _)
\* "for zone, level in sorted(...)" from the i-th item of zs on
by_zone_outer(zs, i, d, lk, op) ==
    IF i > Len(zs) THEN [zones |-> d, lookup |-> lk, opened |-> op, crashed |-> FALSE]
    ELSE LET r == by_zone_inner(zs[i][1], zs[i][2], sorted_down(d, 8), 1, d, lk, op)
         IN  IF r.crashed THEN r
             ELSE by_zone_outer(zs, i + 1, r.zones, r.lookup, r.opened)

RECURSIVE without_opened(_, _, _, _)
\* "for zone, freq in list(exclusion_zones.items())": every zone is
\* popped and put back without the opened positions, if any is left
without_opened(d, snap, k, op) ==
    IF k > Len(snap) THEN d
    ELSE LET new_zone == snap[k][1] \ op
             popped == DictPop(d, snap[k][1])
         IN  without_opened(IF new_zone # {} THEN DictSet(popped, new_zone, snap[k][2])
                            ELSE popped,
                            snap, k + 1, op)

find_by_exclusion_zone(d, lk) ==
    LET r == by_zone_outer(sorted_up(d, 0), 1, d, lk, {}) IN
    [zones |-> IF r.crashed THEN d ELSE without_opened(r.zones, r.zones, 1, r.opened),
     lookup |-> r.lookup,
     updated |-> r.opened # {},
     crashed |-> r.crashed]

\* "exclusion_zones[new_zone] = 1"
symmetric_count == 1

\* The body of the innermost loop of update_zones for the items a and b of
\* exclusion_zones, as what it does: rule "sym" puts the zone in with the
\* count if the zone is not a key yet, rule "diff" writes the count of the
\* zone, rule "mark" marks the one cell of the zone and ends the call, and
\* set(new_zone).pop() of an empty zone fails.
pair_write(a, b) ==
    LET freq == a[2]
        other_freq == b[2]
        hi == IF freq > other_freq THEN a ELSE b
        lo == IF freq > other_freq THEN b ELSE a
    IN  IF freq = other_freq
        THEN [rule |-> "sym", zone |-> (a[1] \ b[1]) \cup (b[1] \ a[1]),
              count |-> symmetric_count]
        ELSE [rule |-> IF Cardinality(hi[1] \ lo[1]) > 1 THEN "diff"
                       ELSE IF hi[1] \ lo[1] # {} THEN "mark" ELSE "fail",
              zone |-> hi[1] \ lo[1],
              count |-> hi[2] - lo[2]]

\* a visit that changes nothing, whenever it is made: a zone of rule "sym"
\* that is empty or a key of the dict (update_zones removes no key)
changes_nothing(d, w) == w.rule = "sym" /\ (w.zone = {} \/ HasKey(d, w.zone))

\* What the loops of update_zones have to do: by_coord holds, for every
\* coordinate, the zones around it by the count they had when
\* group_by_coord was called, so the loops visit the pairs of zones with a
\* common coordinate.  A zone with itself gives the empty zone.  Pairs
\* that do the same are one visit.
zone_writes(d) ==
    {w \in {pair_write(d[ij[1]], d[ij[2]]) :
               ij \in {ij \in (1..Len(d)) \X (1..Len(d)) :
                          ij[1] < ij[2] /\ d[ij[1]][1] \cap d[ij[2]][1] # {}}} :
        ~changes_nothing(d, w)}

mz_rest == <<key, n, nrows, ncols, board0, v4vars, v2vars, genvars, gsvars>>

MzOpenZeros ==
    /\ mz_pc = "open_zeros"
    /\ LET r == open_zeros(mz_lookup) IN
         /\ mz_lookup' = IF r.crashed THEN mz_lookup ELSE r.lookup
         /\ mz_pc' = IF r.crashed THEN "crashed" ELSE loop_head(mz_nfound)
    /\ UNCHANGED <<mz_nfound, mz_updated, mz_zones, mz_space_updated, mz_pairs,
                   mz_zone_added, mz_added, mz_marked, mz_res, mz_rest>>

MzMarkSpaces ==
    /\ mz_pc = "mark"
    /\ LET r == mark_spaces(mz_lookup) IN
         /\ mz_lookup' = r.lookup
         /\ mz_nfound' = mz_nfound + r.nfound
         /\ mz_updated' = (r.nfound # 0)
    /\ mz_pc' = "open_safe"
    /\ UNCHANGED <<mz_zones, mz_space_updated, mz_pairs, mz_zone_added, mz_added,
                   mz_marked, mz_res, mz_rest>>

MzOpenSafeSpaces ==
    /\ mz_pc = "open_safe"
    /\ LET r == open_safe_spaces(mz_lookup) IN
         /\ mz_lookup' = IF r.crashed THEN mz_lookup ELSE r.lookup
         /\ mz_updated' = (mz_updated \/ r.space_unpacked)
         /\ mz_pc' = IF r.crashed THEN "crashed"
                     ELSE IF mz_updated \/ r.space_unpacked THEN loop_head(mz_nfound)
                     ELSE "find"
    /\ UNCHANGED <<mz_nfound, mz_zones, mz_space_updated, mz_pairs, mz_zone_added,
                   mz_added, mz_marked, mz_res, mz_rest>>

\* find_safe_spaces up to its loop: get_frontier and get_exclusion_zones
MzFindSafeSpaces ==
    /\ mz_pc = "find"
    /\ mz_zones' = exclusion_zones_from(mz_lookup, find_frontier(mz_lookup), 1, <<>>)
    /\ mz_space_updated' = FALSE
    /\ mz_pc' = "by_zone"
    /\ UNCHANGED <<mz_lookup, mz_nfound, mz_updated, mz_pairs, mz_zone_added, mz_added,
                   mz_marked, mz_res, mz_rest>>

\* "updated |= find_by_exclusion_zone(exclusion_zones, display)" and the
\* call of update_zones up to its loops
MzFindByExclusionZone ==
    /\ mz_pc = "by_zone"
    /\ LET r == find_by_exclusion_zone(mz_zones, mz_lookup) IN
         /\ mz_lookup' = IF r.crashed THEN mz_lookup ELSE r.lookup
         /\ mz_zones' = r.zones
         /\ mz_space_updated' = (mz_space_updated \/ (~r.crashed /\ r.updated))
         /\ mz_pairs' = IF r.crashed THEN {} ELSE zone_writes(r.zones)
         /\ mz_pc' = IF r.crashed THEN "crashed" ELSE "update"
    /\ mz_zone_added' = FALSE
    /\ mz_added' = {}
    /\ mz_marked' = {}
    /\ UNCHANGED <<mz_nfound, mz_updated, mz_res, mz_rest>>

\* One visit of the loops of update_zones, or their end.  A marked cell
\* ends the call with (True, True); the end of the loops gives
\* (zone_added, False), and without a new zone find_safe_spaces returns to
\* the loop of solve_mine, which goes on if the board was updated and
\* returns '?' if not.
MzUpdateZones ==
    /\ mz_pc = "update"
    /\ IF mz_pairs # {}
       THEN \E w \in mz_pairs :
               LET after == IF w.rule \in {"sym", "diff"}
                              THEN DictSet(mz_zones, w.zone, w.count)
                              ELSE mz_zones
               IN
               /\ mz_zones' = after
               /\ mz_added' = IF w.rule \in {"sym", "diff"}
                               THEN mz_added \cup {<<w.zone, w.count>>}
                               ELSE mz_added
               /\ mz_marked' = IF w.rule = "mark" THEN mz_marked \cup w.zone ELSE mz_marked
               /\ mz_zone_added' = (mz_zone_added \/ w.rule = "sym")
               /\ mz_lookup' = [p \in DOMAIN mz_lookup |->
                                   IF w.rule = "mark" /\ p \in w.zone THEN "x"
                                   ELSE mz_lookup[p]]
               /\ mz_pairs' = IF w.rule \in {"mark", "fail"} THEN {}
                               ELSE {v \in mz_pairs \ {w} : ~changes_nothing(after, v)}
               /\ mz_space_updated' = (mz_space_updated \/ w.rule = "mark")
               /\ mz_pc' = IF w.rule = "fail" THEN "crashed"
                           ELSE IF w.rule = "mark" THEN "by_zone"
                           ELSE "update"
               /\ UNCHANGED mz_res
       ELSE /\ mz_pc' = IF mz_zone_added THEN "by_zone"
                        ELSE IF mz_space_updated THEN loop_head(mz_nfound)
                        ELSE "done"
            /\ mz_res' = IF ~mz_zone_added /\ ~mz_space_updated THEN <<"?">> ELSE mz_res
            /\ UNCHANGED <<mz_zones, mz_added, mz_marked, mz_zone_added, mz_lookup,
                           mz_pairs, mz_space_updated>>
    /\ UNCHANGED <<mz_nfound, mz_updated, mz_rest>>

\* "All mines found; Open all remaining '?'s" and the return of the grid
MzFinish ==
    /\ mz_pc = "finish"
    /\ LET rest == {pos \in DOMAIN mz_lookup : mz_lookup[pos] = "?"} IN
         IF hits_mine(rest)
         THEN /\ mz_pc' = "crashed"
              /\ UNCHANGED <<mz_lookup, mz_res>>
         ELSE /\ mz_lookup' = OpenHints(mz_lookup, rest)
              /\ mz_res' = hashmaptostring(OpenHints(mz_lookup, rest))
              /\ mz_pc' = "done"
    /\ UNCHANGED <<mz_nfound, mz_updated, mz_zones, mz_space_updated, mz_pairs,
                   mz_zone_added, mz_added, mz_marked, mz_rest>>

NextMz ==
    \/ MzOpenZeros
    \/ MzMarkSpaces
    \/ MzOpenSafeSpaces
    \/ MzFindSafeSpaces
    \/ MzFindByExclusionZone
    \/ MzUpdateZones
    \/ MzFinish

\* inputs beyond the bounds on which update_zones takes the difference of
\* two zones and marks a cell, as <<rows, columns, mines>>:
\*   x 2 1      x x 1 0
\*   3 x 1      x 3 1 0
\*   x 2 1      2 2 1 0
\*   1 1 0      1 x 1 0
MzBoards ==
    {<<4, 3, {<<0, 0>>, <<1, 1>>, <<2, 0>>}>>,
     <<4, 4, {<<0, 0>>, <<0, 1>>, <<1, 0>>, <<3, 1>>}>>}

\* solve_mine(map, n) for the inputs within the bounds and those of MzBoards
InitMz ==
    /\ GenCall(1, 1, 0, "gamebuilder")
    /\ \E in \in {in \in Inputs : in[1] <= MaxRows /\ in[2] <= MaxCols} \cup MzBoards :
          Start(in[1], in[2], in[3], HiddenBoard(KeyOf(in[3], in[1], in[2])))

SpecMz == InitMz /\ [][NextMz]_vars

\* ======================================================================
\* Properties
\* ======================================================================
Cells == DOMAIN board

Hidden(b) == {p \in DOMAIN b : b[p] = "?"}

\* the cells the engine has set to "x"
EngineFlags == {p \in Cells : board[p] = "x" /\ board0[p] # "x"}

Stuck == <<"?">>

RECURSIVE SplitAt(_, _, _)
\* text.split(sep), cur being the piece read so far
SplitAt(text, sep, cur) ==
    IF text = <<>> THEN <<cur>>
    ELSE IF Head(text) = sep THEN <<cur>> \o SplitAt(Tail(text), sep, <<>>)
    ELSE SplitAt(Tail(text), sep, Append(cur, Head(text)))

Split(text, sep) == SplitAt(text, sep, <<>>)

\* text is a grid of nr rows of nc tokens, none of them "?"
IsSolvedGridText(text, nr, nc) ==
    LET lines == Split(text, "\n") IN
    /\ Len(lines) = nr
    /\ \A i \in 1..Len(lines) :
         LET tokens == Split(lines[i], " ") IN
         /\ Len(tokens) = nc
         /\ \A j \in 1..Len(tokens) : Len(tokens[j]) = 1 /\ tokens[j] # <<"?">>
    /\ \A k \in 1..Len(text) : text[k] # "?"

\* One simultaneous application of the Mark and Open rules of the local
\* saturation to every revealed cell of b.
RuleStep(b) ==
    LET Flagged(h) == {q \in get_neighbors(h[1], h[2]) : b[q] = "x"}
        Unknown(h) == {q \in get_neighbors(h[1], h[2]) : b[q] = "?"}
        Hints(p) == {h \in get_neighbors(p[1], p[2]) : isnumeric(b[h])}
    IN  [p \in DOMAIN b |->
           IF b[p] # "?" THEN b[p]
           ELSE IF \E h \in Hints(p) :
                     int(b[h]) = Cardinality(Flagged(h)) + Cardinality(Unknown(h))
                THEN "x"
           ELSE IF \E h \in Hints(p) : int(b[h]) = Cardinality(Flagged(h))
                THEN key[p]
           ELSE b[p]]

RECURSIVE Saturate(_)
Saturate(b) == IF RuleStep(b) = b THEN b ELSE Saturate(RuleStep(b))

\* the Mark and Open rules alone decide every hidden cell of the input
LocallyDecidable == Hidden(Saturate(board0)) = {}

\* the 3x3 example of the specification
ExampleRows == <<<<"1", "x", "1">>, <<"1", "1", "1">>, <<"0", "0", "0">>>>
ExampleInput == <<<<"?", "?", "?">>, <<"?", "?", "?">>, <<"0", "0", "0">>>>
ExampleText == <<"1", " ", "x", " ", "1", "\n",
                 "1", " ", "1", " ", "1", "\n",
                 "0", " ", "0", " ", "0">>

IsExample ==
    /\ nrows = 3
    /\ ncols = 3
    /\ n = 1
    /\ \A p \in Cells : key[p] = ExampleRows[p[1] + 1][p[2] + 1]
    /\ \A p \in Cells : board0[p] = ExampleInput[p[1] + 1][p[2] + 1]

\* C1: every cell the engine has set to "x" is a mine in the key.
C1_FlagSoundness == \A p \in EngineFlags : key[p] = "x"

\* C2: the oracle is never called on a mine of the key (its assertion never
\* fails) and every revealed cell holds the key's hint.
C2_RevealSoundness ==
    /\ pc # "crashed"
    /\ \A p \in Cells : opened[p] > 0 => key[p] # "x"
    /\ \A p \in Cells : isnumeric(board[p]) => board[p] = key[p]

\* C3: the oracle is never invoked on a position that is flagged "x": no
\* step makes an oracle call on a cell whose token is "x".
C3_NoOpenOfFlagged ==
    [][\A p \in Cells : opened'[p] > opened[p] => board[p] # "x"]_vars

\* a position was opened while a flag was on the board, and the run ended
C3_Witness == pc = "done" /\ opened_after_flag # {} /\ EngineFlags # {}

\* C4: the oracle is invoked at most once per position, and never on a
\* position that was already revealed in the input board.
C4_OpenAtMostOnce ==
    \A p \in Cells : opened[p] <= 1 /\ (board0[p] # "?" => opened[p] = 0)

\* a finished run that opened several positions next to revealed input cells
C4_Witness ==
    /\ pc = "done"
    /\ Cardinality({p \in Cells : opened[p] = 1}) >= 2
    /\ \E p \in Cells : board0[p] # "?"

\* C5: the set of hidden positions never grows, and a cell that is revealed
\* or flagged is never written again.
C5_Monotone ==
    [][/\ Hidden(board') \subseteq Hidden(board)
       /\ unknowns' \subseteq unknowns
       /\ \A p \in Cells : board[p] # "?" =>
             board'[p] = board[p] /\ written'[p] = written[p]]_vars

\* both kinds of transition have happened: a cell was revealed, a cell was flagged
C5_Witness ==
    /\ \E p \in Cells : board0[p] = "?" /\ isnumeric(board[p])
    /\ EngineFlags # {}
    /\ calls[1] > 0

\* C6: the result is the single token "?" or a grid text with the input's
\* number of rows and columns and no "?" token; a grid is returned only
\* when the hidden set is empty.
C6_ResultShape ==
    pc = "done" =>
        \/ result = Stuck
        \/ /\ IsSolvedGridText(result, nrows, ncols)
           /\ unknowns = {}
           /\ Hidden(board) = {}

\* a run that returned a grid
C6_Witness == pc = "done" /\ result # Stuck /\ Hidden(board0) # {}

\* C7: "?" is returned only when hidden cells remain at termination.
C7_StuckOnlyWithHidden == (pc = "done" /\ result = Stuck) => Hidden(board) # {}

\* C8: once nmines_remaining is 0, all remaining hidden cells are revealed
\* and the run ends Solved (stated for the inputs that have a hidden cell).
C8_AllMinesFlaggedSolves ==
    (pc = "done" /\ nmines_remaining = 0 /\ Hidden(board0) # {}) =>
        (Hidden(board) = {} /\ result # Stuck)

\* C9: a board with zero mines, or one the Mark and Open rules alone decide,
\* ends Solved without any call of inclusive_deduction or exclusive_deduction.
C9_TrivialBoards ==
    (pc = "done" /\ (n = 0 \/ LocallyDecidable)) =>
        (result # Stuck /\ calls[1] = 0 /\ calls[2] = 0)

\* C10 as stated: on the 3x3 example the key is returned and neither
\* inclusive_deduction nor exclusive_deduction is invoked.
C10_ExampleLocalOnly ==
    IsExample =>
        /\ pc # "crashed"
        /\ pc = "done" => result = ExampleText
        /\ calls[1] = 0
        /\ calls[2] = 0

\* C10 amended: on the 3x3 example the key is returned; inclusive_deduction
\* is invoked exactly once in the run, exclusive_deduction and
\* numerical_deduction never.
C10_ExampleSolved ==
    IsExample =>
        /\ pc # "crashed"
        /\ pc = "done" => (result = ExampleText /\ calls[1] = 1)
        /\ calls[1] <= 1
        /\ calls[2] = 0
        /\ calls[3] = 0

C10_Witness == IsExample /\ pc = "done" /\ result = get_board_str(key)

\* zones A (count 2) and B (count 1) of the dict g that share exactly two
\* positions and have exactly one exclusive position each
OneTwoPair(g, A, B) ==
    /\ A \in DOMAIN g
    /\ B \in DOMAIN g
    /\ g[A] = 2
    /\ g[B] = 1
    /\ Cardinality(A \cap B) = 2
    /\ Cardinality(A \ B) = 1
    /\ Cardinality(B \ A) = 1

\* this step is a call of exclusive_deduction
ExclusiveCalled == calls'[2] = calls[2] + 1

\* C11: when exclusive_deduction runs on a count-2 zone A and a count-1 zone
\* B that share exactly two positions and have one exclusive position each,
\* the pair yields the exclusive position of A as the target in either
\* visiting order, and with A and B the only zones the call flags exactly
\* that position and changes no other cell.
C11_OneTwoPattern ==
    [][ExclusiveCalled =>
         \A A \in DOMAIN groups', B \in DOMAIN groups' :
            OneTwoPair(groups', A, B) =>
               /\ target(A, 2, B, 1) = <<A \ B>>
               /\ target(B, 1, A, 2) = <<A \ B>>
               /\ DOMAIN groups' = {A, B} =>
                     /\ \A p \in A \ B : board[p] = "?" /\ board'[p] = "x"
                     /\ \A p \in Cells \ (A \ B) : board'[p] = board[p]
                     /\ unknowns' = unknowns \ (A \ B)
                     /\ nmines_remaining' = nmines_remaining - 1]_vars

\* exclusive_deduction has just run on exactly such a pair and flagged the
\* exclusive position of the count-2 zone
C11_Witness ==
    /\ pc = "loop"
    /\ idx = 0
    /\ calls[2] = 1
    /\ num_unknown = Cardinality(unknowns) + 1
    /\ \E A \in DOMAIN groups, B \in DOMAIN groups :
          /\ OneTwoPair(groups, A, B)
          /\ DOMAIN groups = {A, B}
          /\ \A p \in A \ B : board[p] = "x" /\ written[p] = 1
          /\ \A p \in B : board[p] = "?"
\* the mine placements of n mines on hidden cells of b that agree with every
\* revealed hint of b
Placements(b) ==
    {M \in SUBSET Hidden(b) :
        /\ Cardinality(M) + Cardinality({p \in DOMAIN b : b[p] = "x"}) = n
        /\ \A h \in DOMAIN b : isnumeric(b[h]) =>
              Cardinality({q \in get_neighbors(h[1], h[2]) : q \in M \/ b[q] = "x"}) = int(b[h])}

\* the hidden cells of the input form a 50/50 pattern: exactly two
\* placements are consistent, and every hidden cell is a mine in exactly one
FiftyFifty ==
    /\ Hidden(board0) # {}
    /\ Cardinality(Hidden(board0)) = 2 * (n - Cardinality({p \in Cells : board0[p] = "x"}))
    /\ Cardinality(Placements(board0)) = 2
    /\ \A p \in Hidden(board0) : \E M \in Placements(board0) : p \in M

\* C12: on an input whose hidden cells form a 50/50 pattern the solver never
\* flags or opens a cell (every hidden cell differs between the two
\* placements), the oracle's assertion never fails, and the run returns "?".
C12_NeverGuesses ==
    FiftyFifty =>
        /\ pc # "crashed"
        /\ \A p \in Cells : board[p] = board0[p] /\ opened[p] = 0
        /\ pc = "done" => result = Stuck
\* the number of heuristic calls made so far
TotalCalls == calls[0] + calls[1] + calls[2] + calls[3]

\* the loop was left by its while condition after basic_analysis,
\* inclusive_deduction, exclusive_deduction and numerical_deduction ran in
\* sequence on the same frontier without reducing the hidden set
StuckEnd ==
    /\ idx = Len(heuristics)
    /\ num_unknown = Cardinality(unknowns)
    /\ \A i \in 0..3 : calls[i] > 0

\* C13: the analysis loop terminates: the number of heuristic calls is
\* bounded by four per hidden cell of the input plus four, the run is never
\* cut short, and the loop ends with the hidden set empty or with all four
\* heuristics having run in sequence without reducing the hidden set.
C13_Terminates ==
    /\ TotalCalls <= Len(heuristics) * (Cardinality(Hidden(board0)) + 1)
    /\ pc # "crashed"
    /\ pc = "done" => (unknowns = {} \/ StuckEnd)
\* the tokens of the input format
ValidTokens == {Digits[k] : k \in 1..Len(Digits)} \cup {"?", "x"}

\* the input holds a token that is not of the input format
Irregular == \E p \in Cells : board0[p] \notin ValidTokens

\* C14: on an irregular input no heuristic is ever called and the oracle is
\* never called.
C14_RejectsIrregular ==
    Irregular => (TotalCalls = 0 /\ \A p \in Cells : opened[p] = 0)
\* two frontier cells yield the same zone with different remaining counts
Conflict(b, fr, unk) ==
    \E p \in fr, q \in fr :
        /\ Zone(p, unk) = Zone(q, unk)
        /\ count_remaining_mines(p, b) # count_remaining_mines(q, b)

\* this step is a call of inclusive_deduction or exclusive_deduction, the
\* two callers of get_groups
GetGroupsCalled == calls'[1] = calls[1] + 1 \/ calls'[2] = calls[2] + 1

\* C15: a call of get_groups on a frontier where two cells yield the same
\* zone with different counts ends the run with an error.
C15_ConflictAborts ==
    [][(GetGroupsCalled /\ Conflict(board, frontier, unknowns)) => pc' = "crashed"]_vars
\* the text of the key
KeyText == JoinRows(key, 0)

\* C16: solve_mine of src/v2.py ends by a return, and the value it returns
\* is "?" or the text of the key.
C16_V2KeyOrStuck ==
    /\ v2pc # "crashed"
    /\ v2pc = "done" => (res = Stuck \/ res = KeyText)

\* a run that marked mines, opened cells by find_safe_spaces and returned
\* the key
C16_Witness ==
    /\ v2pc = "done"
    /\ res = KeyText
    /\ nfound > 0
    /\ used_find
\* the input with the key
\*   x 2 x 1
\*   1 2 1 1
\*   0 1 1 1
\*   0 1 x 1
IsOrderBoard ==
    /\ nrows = 4
    /\ ncols = 4
    /\ {p \in Cells : key[p] = "x"} = {<<0, 0>>, <<0, 2>>, <<3, 2>>}
    /\ board0 = HiddenBoard(key)

\* C17 on that input: every order of iteration ends the run with the same
\* result.  One order returns the key (C17_Witness), so every run has to
\* end by returning the key.
C17_SameResult ==
    IsOrderBoard => (pc # "crashed" /\ (pc = "done" => result = KeyText))

\* a run on that input that returns the key
C17_Witness == IsOrderBoard /\ pc = "done" /\ result = KeyText

\* splitlines of a text: the pieces between newlines, a newline at the end
\* closing the last line
splitlines(text) ==
    LET parts == Split(text, "\n") IN
    IF parts[Len(parts)] = <<>> THEN SubSeq(parts, 1, Len(parts) - 1) ELSE parts

\* the text is a grid of rows x columns one-character tokens
IsGridText(text) ==
    /\ Len(splitlines(text)) = rows
    /\ \A i \in 1..Len(splitlines(text)) :
         LET tokens == Split(splitlines(text)[i], " ") IN
         /\ Len(tokens) = columns
         /\ \A j \in 1..Len(tokens) : Len(tokens[j]) = 1

\* the token of the grid text at position p
TokenAt(text, p) == Split(splitlines(text)[p[1] + 1], " ")[p[2] + 1][1]

\* the placement the shuffle produced
Placement == {p \in DOMAIN gen_board : gen_board[p] = x_mark}

\* C18: when gen_board returns, the key and the display board are grids of
\* rows x columns tokens, the key has "x" exactly on the placement, every
\* other cell of the key holds the number of mines among its neighbours,
\* and the display board has "?" exactly where the key is not "0" (and "0"
\* elsewhere).
C18_GenBoardCorrect ==
    gen_pc = "done" =>
       /\ IsGridText(gen_out[1])
       /\ IsGridText(gen_out[2])
       /\ \A p \in Pos(rows, columns) :
            /\ TokenAt(gen_out[2], p) = "x" <=> p \in Placement
            /\ p \notin Placement =>
                 TokenAt(gen_out[2], p)
                    = str(Cardinality(Neighbors(p[1], p[2], rows, columns) \cap Placement))
            /\ TokenAt(gen_out[1], p) = "?" <=> TokenAt(gen_out[2], p) # "0"
            /\ TokenAt(gen_out[1], p) \in {"?", "0"}

\* gen_board of the module that retries has returned a grid with two
\* adjacent mines, a cell counting more than one mine and a 0
C18_Witness ==
    /\ gen_pc = "done"
    /\ gen_module = "minesweeper"
    /\ \E p \in Placement : Neighbors(p[1], p[2], rows, columns) \cap Placement # {}
    /\ \E p \in Pos(rows, columns) : gen_board[p] >= 2
    /\ \E p \in Pos(rows, columns) : TokenAt(gen_out[1], p) = "0"

\* heuristics[i] is invoked in this step
Invoked(i) == calls'[i] = calls[i] + 1

\* C19 as stated: a heuristic invoked when the hidden set has shrunk since
\* the last frontier was computed is basic_analysis, basic_analysis gets a
\* freshly computed frontier, and inclusive_deduction and
\* exclusive_deduction are invoked only when the call before them was a
\* basic_analysis call that resolved no cell.
C19_AfterBasicOnly ==
    [][\A i \in 0..3 :
          Invoked(i) =>
             /\ Cardinality(unknowns) < num_unknown => i = 0
             /\ i = 0 => frontier' = Frontier(board, unknowns)
             /\ i \in {1, 2} =>
                  (last_called = 0 /\ Cardinality(unknowns) = num_unknown)]_vars

\* C19, amended: as above, but the call before exclusive_deduction is an
\* inclusive_deduction call that resolved no cell, itself invoked after a
\* basic_analysis call that resolved no cell; the hidden set is the one
\* that basic_analysis call started from.
C19_Ordering ==
    [][\A i \in 0..3 :
          Invoked(i) =>
             /\ Cardinality(unknowns) < num_unknown => i = 0
             /\ i = 0 => frontier' = Frontier(board, unknowns)
             /\ i \in {1, 2} =>
                  (last_called = i - 1 /\ Cardinality(unknowns) = num_unknown)]_vars

\* basic_analysis runs again after a call that resolved a cell, in a run
\* that has invoked exclusive_deduction, with hidden cells remaining
C19_Witness ==
    /\ last_called = 0
    /\ calls[2] >= 1
    /\ calls[0] >= 2
    /\ unknowns # {}
    /\ Cardinality(unknowns) < Cardinality(Hidden(board0))

\* a basic_analysis call has just returned without resolving any cell
BasicResolvedNothing ==
    /\ pc = "loop"
    /\ last_called = 0
    /\ idx = 1
    /\ Cardinality(unknowns) = num_unknown

\* C20: after a basic_analysis call that resolved no cell, no revealed
\* cell with a hidden neighbour satisfies the Mark rule (hint = flagged +
\* hidden neighbours) or the Open rule (hint = flagged neighbours), and
\* the loop body of basic_analysis changes nothing for any cell of the
\* frontier of that grid.
C20_SaturationFixedPoint ==
    BasicResolvedNothing =>
       /\ \A q \in Cells :
            (isnumeric(board[q]) /\ local_unknowns(q[1], q[2], board) # {}) =>
               /\ int(board[q]) # Cardinality(local_mines(q[1], q[2], board))
                                     + Cardinality(local_unknowns(q[1], q[2], board))
               /\ int(board[q]) # Cardinality(local_mines(q[1], q[2], board))
       /\ \A q \in Frontier(board, unknowns) :
            \A o \in BasicCell(q[1], q[2], board, unknowns, nmines_remaining) :
               /\ ~o.crashed
               /\ o.board = board
               /\ o.unknowns = unknowns
               /\ o.nmines_remaining = nmines_remaining

\* a basic_analysis call that resolved no cell, after an earlier call that
\* did, with hidden cells next to hints on the grid
C20_Witness ==
    /\ BasicResolvedNothing
    /\ calls[0] >= 2
    /\ Cardinality(unknowns) < Cardinality(Hidden(board0))
    /\ Frontier(board, unknowns) # {}
    /\ \E p \in Cells : board[p] = "x"

\* every flagged cell of b is a mine of the key and every revealed cell of
\* b holds the hint of the key
ConsistentGrid(b) ==
    \A p \in DOMAIN b :
       /\ b[p] = "x" => key[p] = "x"
       /\ isnumeric(b[p]) => b[p] = key[p]

\* the number of mines of the key inside zone
MinesIn(zone) == Cardinality({p \in zone : key[p] = "x"})

\* every entry of the dict d holds the number of key mines of its zone
ExactCounts(d) ==
    \A zone \in DOMAIN d :
       /\ d[zone] = MinesIn(zone)
       /\ 0 <= d[zone]
       /\ d[zone] <= Cardinality(zone)

\* C21: when inclusive_deduction or exclusive_deduction is invoked on a
\* grid whose flags are true mines and whose revealed cells hold the key's
\* hints, every entry of the dict get_groups returns, and every entry that
\* inclusive_deduction stores in new_groups, has the number of key mines
\* of its zone as count, so 0 <= count <= |zone|.
C21_ExactCounts ==
    [][((Invoked(1) \/ Invoked(2)) /\ ConsistentGrid(board)) =>
          /\ ExactCounts(groups')
          /\ \A g \in get_groups(board, frontier, unknowns) :
               /\ ExactCounts(g)
               /\ \A ng \in NewGroups(g) : ExactCounts(ng)
          /\ Invoked(1) => ExactCounts(new_groups')]_vars

\* inclusive_deduction has filled new_groups on a consistent grid, with a
\* subset split and a disjoint-children split among the writes
C21_Witness ==
    /\ pc = "apply"
    /\ ConsistentGrid(board)
    /\ SubsetPairs(groups) # {}
    /\ WritingTriples(groups) # {}
    /\ DOMAIN new_groups # {}
    /\ Cardinality(unknowns) = num_unknown

\* inclusive_deduction is about to return: the update loop is through
InclusiveReturns == pc = "apply" /\ pending = {}

\* every member of B - A is revealed when b - a = 0 and flagged when
\* b - a = |B - A|, for the zones A < B of the dict g
SubsetsClosed(g, b) ==
    \A pair \in SubsetPairs(g) :
       LET rest == pair[2] \ pair[1]
           count == g[pair[2]] - g[pair[1]]
       IN  /\ count = 0 => \A p \in rest : isnumeric(b[p])
           /\ count = Cardinality(rest) => \A p \in rest : b[p] = "x"

\* C22: when inclusive_deduction returns, for every pair of zones A, B of
\* groups with A a proper subset of B, every member of B - A has been
\* revealed if b - a = 0 and flagged if b - a = |B - A|.
C22_SubsetClosure == InclusiveReturns => SubsetsClosed(groups, board)

\* inclusive_deduction returns after it revealed the remainder B - A of a
\* pair of zones with b - a = 0
C22_Witness ==
    /\ InclusiveReturns
    /\ Cardinality(unknowns) < num_unknown
    /\ \E pair \in SubsetPairs(groups) : groups[pair[2]] - groups[pair[1]] = 0

\* the other case: it returns after it flagged a remainder with
\* b - a = |B - A|
C22_FlaggedCase ==
    /\ InclusiveReturns
    /\ Cardinality(unknowns) < num_unknown
    /\ \E pair \in SubsetPairs(groups) :
          groups[pair[2]] - groups[pair[1]] = Cardinality(pair[2] \ pair[1])

\* zones A and B of the dict g overlap in S, the forced minimum
\* max(a - |A - S|, b - |B - S|, 0) equals a, and A - S is not empty
SafeRemainder(g, A, B) ==
    /\ A # B
    /\ A \cap B # {}
    /\ A \ B # {}
    /\ min_allowed_in_same(A, g[A], B, g[B]) = g[A]

\* C23: for zones A, B of the dict exclusive_deduction reads with
\* SafeRemainder, the call reveals every member of A - S and flags none
\* of them.
C23_OverlapSafeReveal ==
    [][Invoked(2) =>
          \A A \in DOMAIN groups', B \in DOMAIN groups' :
             SafeRemainder(groups', A, B) =>
                \A p \in A \ B : isnumeric(board'[p]) /\ opened'[p] = opened[p] + 1]_vars

\* the positions the step has taken out of unknowns
Resolved == unknowns \ unknowns'

HintsNextToHidden(b) ==
    {q \in DOMAIN b : isnumeric(b[q]) /\ \E p \in get_neighbors(q[1], q[2]) : b[p] = "?"}

\* C25: at every invocation of inclusive_deduction or exclusive_deduction
\* frontier is exactly the set of revealed numeric cells with a hidden
\* neighbour in the current grid, and every zone of every dict get_groups
\* can return (the one the call uses included) is non-empty and holds
\* hidden cells only.
C25_ZonesFromFrontier ==
    [][(Invoked(1) \/ Invoked(2)) =>
          /\ frontier = HintsNextToHidden(board)
          /\ \A g \in get_groups(board, frontier, unknowns) \cup {groups'} :
               \A zone \in DOMAIN g : zone # {} /\ \A p \in zone : board[p] = "?"]_vars

\* inclusive_deduction has been invoked, after cells were resolved, with a
\* frontier that leaves out some revealed hint
C25_Witness ==
    /\ pc = "apply"
    /\ calls[0] >= 2
    /\ frontier # {}
    /\ \E q \in Cells : isnumeric(board[q]) /\ q \notin frontier
    /\ DOMAIN groups # {}

\* C30: as long as no call has failed, and so after every heuristic call,
\* unknowns is exactly the set of positions whose token is "?" and
\* nmines_remaining is n minus the number of cells the engine has flagged.
C30_Bookkeeping ==
    pc # "crashed" =>
       /\ unknowns = Hidden(board)
       /\ nmines_remaining = n - Cardinality(EngineFlags)

\* a heuristic call has returned after the engine flagged two or more
\* cells and opened others, with hidden cells left
C30_Witness ==
    /\ pc = "loop"
    /\ last_called >= 0
    /\ Cardinality(EngineFlags) >= 2
    /\ \E p \in Cells : opened[p] > 0
    /\ unknowns # {}

\* ---------------------------------------------------------------- C28
\* C28: get_solution of v3 calls the oracle open at most once per position:
\* neither the cascade of _open, nor the loop over safe_spaces, nor the
\* last loop over the remaining unknowns opens a position a second time.
C28_OpenAtMostOnce == \A p \in DOMAIN gs_opened : gs_opened[p] <= 1


\* ---------------------------------------------------------------- C27
\* the frontier cells of a call of _make_ties in the current state
FrontierCells == frontier_from(GameStateNow, 1, <<>>)

\* the hint of the cell h minus the number of its flagged neighbours
HintLessFlags(h) ==
    int(gs_hint[h]) - Cardinality({j \in 1..Len(NeighborSeq(h)) :
                                      gs_hint[NeighborSeq(h)[j]] = "x"})

\* C27: in v3, the zone that _make_ties creates from a frontier cell h is
\* the set of the hidden neighbours of h, and its count is the hint of h
\* minus the number of flagged neighbours of h, also when h was already
\* revealed in the input.
C27_ZoneOfFrontierCell ==
    gs_pc = "ties" =>
        LET made == create_zones(GameStateNow, FrontierCells, 1) IN
        \A k \in 1..Len(FrontierCells) :
           LET h == FrontierCells[k]
               zone == {q \in DOMAIN gs_hint :
                           /\ \E j \in 1..Len(NeighborSeq(h)) : NeighborSeq(h)[j] = q
                           /\ gs_hint[q] = "?"}
           IN  \A u \in zone :
                  /\ HasKey(made.zones[u], zone)
                  /\ DictGet(made.zones[u], zone) = HintLessFlags(h)


\* ---------------------------------------------------------------- C26
\* the cells that are still hidden
StillHidden == {u \in DOMAIN gs_hint : gs_hint[u] = "?"}

\* the call recorded in gs_call changed the hint of no other cell than its own
OnlyItsCell == \A q \in DOMAIN gs_hint : gs_hint[q] # gs_call.hint[q] => q = gs_call.pos

\* Every zone that the cell u stored with the position of the call in it,
\* and with other members, is stored without it, with the count expected
\* of it (a zone whose remainder is also the remainder of another zone of u
\* has no count of its own and is left out).
CountsAfterCall(u, expected(_)) ==
    LET before == gs_call.zones[u] IN
    \A k \in 1..Len(before) :
       LET new_zone == before[k][1] \ {gs_call.pos} IN
       (/\ gs_call.pos \in before[k][1]
        /\ new_zone # {}
        /\ \A k2 \in 1..Len(before) : k2 # k => before[k2][1] \ {gs_call.pos} # new_zone)
       => /\ HasKey(gs_zones[u], new_zone)
          /\ DictGet(gs_zones[u], new_zone) = expected(before[k][2])

\* C26: in v3, after a call _open(p) or _mark(p) made by a loop has
\* returned, no zone stored by a still-hidden cell contains p; a zone that
\* contained p has kept its count if p was opened, and has its count
\* reduced by one if p was marked as a mine.
C26_ZoneMaintenance ==
    (gs_call.returned /\ gs_call.hint[gs_call.pos] = "?") =>
        /\ \A u \in StillHidden : \A k \in 1..Len(gs_zones[u]) :
              gs_call.pos \notin gs_zones[u][k][1]
        /\ OnlyItsCell =>
              \A u \in StillHidden :
                 IF gs_call.kind = "open"
                 THEN CountsAfterCall(u, LAMBDA freq : freq)
                 ELSE CountsAfterCall(u, LAMBDA freq : freq - 1)


\* ---------------------------------------------------------------- C29
\* the number of mines of the key in the zone
KeyMinesIn(zone) == Cardinality({p \in zone : key[p] = "x"})

\* C29: in minesweeper/v2.py, on a grid that agrees with the key, every
\* entry that update_zones writes to exclusion_zones (the symmetric
\* difference of two zones of equal count with the count 1, the difference
\* of two zones with the difference of their counts) has the number of key
\* mines of its zone as its count, and every cell update_zones marks 'x' is
\* a mine of the key.
C29_UpdateZonesExact ==
    /\ \A entry \in mz_added : entry[2] = KeyMinesIn(entry[1])
    /\ \A pos \in mz_marked : key[pos] = "x"

====
